---------------------------- MODULE Spec2Model ----------------------------
(***************************************************************************)
(* Query resolution and fallback pipeline of the X sentiment bot:          *)
(* discord_bot.py (validation, classification, dispatch), smart_crawler.py *)
(* (smart_search and its fallback strategies), groq_parser.py (completion  *)
(* service client, local fallback parser, complexity advisor) and          *)
(* crawler.py (crawl_tweets and its alternative invocation paths).         *)
(*                                                                         *)
(* A Python str is a sequence of one-character strings.  A Python value    *)
(* that is not a str (None, a JSON number) is a one-element sequence       *)
(* holding a type marker, so that every value can be compared with every   *)
(* other one.                                                              *)
(***************************************************************************)
EXTENDS Integers, Sequences, FiniteSets, TLC

---------------------------------------------------------------------------
(* Characters and the str methods the code uses *)

IsSpace(ch) ==
    ch \in {" ", "\n", "\t"}

Uppers ==
    <<"A","B","C","D","E","F","G","H","I","J","K","L","M",
      "N","O","P","Q","R","S","T","U","V","W","X","Y","Z">>

Lowers ==
    <<"a","b","c","d","e","f","g","h","i","j","k","l","m",
      "n","o","p","q","r","s","t","u","v","w","x","y","z">>

Digits ==
    {"0","1","2","3","4","5","6","7","8","9"}

\* \w of the re module
IsWordChar(ch) ==
    \/ \E k \in 1..26 : Uppers[k] = ch \/ Lowers[k] = ch
    \/ ch \in Digits
    \/ ch = "_"

\* str.lower
LowerCh(ch) ==
    IF \E k \in 1..26 : Uppers[k] = ch
    THEN Lowers[CHOOSE k \in 1..26 : Uppers[k] = ch]
    ELSE ch

Lower(s) ==
    [i \in 1..Len(s) |-> LowerCh(s[i])]

\* str.strip
Strip(s) ==
    IF \A i \in 1..Len(s) : IsSpace(s[i])
    THEN <<>>
    ELSE LET a == CHOOSE i \in 1..Len(s) :
                    ~IsSpace(s[i]) /\ \A j \in 1..(i-1) : IsSpace(s[j])
             b == CHOOSE i \in 1..Len(s) :
                    ~IsSpace(s[i]) /\ \A j \in (i+1)..Len(s) : IsSpace(s[j])
         IN  SubSeq(s, a, b)

\* p in s
Contains(s, p) ==
    \E i \in 1..(Len(s) - Len(p) + 1) : SubSeq(s, i, i + Len(p) - 1) = p

\* p matches s at index i
MatchAt(s, p, i) ==
    /\ i + Len(p) - 1 <= Len(s)
    /\ SubSeq(s, i, i + Len(p) - 1) = p

\* last index of the run of non-space characters that starts at i
RunEnd(s, i) ==
    CHOOSE e \in i..Len(s) :
        /\ (e = Len(s) \/ IsSpace(s[e + 1]))
        /\ \A j \in i..e : ~IsSpace(s[j])

\* last index of the run of space characters that follows index e (e if none)
SpaceEnd(s, e) ==
    CHOOSE f \in e..Len(s) :
        /\ (f = Len(s) \/ ~IsSpace(s[f + 1]))
        /\ \A j \in (e+1)..f : IsSpace(s[j])

RECURSIVE SplitFrom(_, _)
SplitFrom(s, i) ==
    IF i > Len(s) THEN <<>>
    ELSE IF IsSpace(s[i]) THEN SplitFrom(s, i + 1)
    ELSE <<SubSeq(s, i, RunEnd(s, i))>> \o SplitFrom(s, RunEnd(s, i) + 1)

\* str.split()
Split(s) ==
    SplitFrom(s, 1)

RECURSIVE Join(_)
\* ' '.join(words)
Join(words) ==
    IF Len(words) = 0 THEN <<>>
    ELSE IF Len(words) = 1 THEN words[1]
    ELSE words[1] \o <<" ">> \o Join(Tail(words))

\* words[:n]
Take(words, n) ==
    SubSeq(words, 1, IF Len(words) < n THEN Len(words) ELSE n)

\* s.replace('"', '')
RemoveQuotes(s) ==
    SelectSeq(s, LAMBDA ch : ch # "\"")

\* s.split('\n')[0]
FirstLine(s) ==
    IF \E i \in 1..Len(s) : s[i] = "\n"
    THEN SubSeq(s, 1, (CHOOSE i \in 1..Len(s) :
                          s[i] = "\n" /\ \A j \in 1..(i-1) : s[j] # "\n") - 1)
    ELSE s

RECURSIVE ReSubFrom(_, _, _)
\* re.sub(r'(p1|p2|..)\S+\s*', '', s) from index i on: a match needs the
\* prefix and at least one non-space character after it; \S+ and \s* are
\* greedy; the scan resumes after the match
ReSubFrom(s, prefixes, i) ==
    IF i > Len(s) THEN <<>>
    ELSE IF \E p \in prefixes :
                /\ MatchAt(s, p, i)
                /\ i + Len(p) <= Len(s)
                /\ ~IsSpace(s[i + Len(p)])
         THEN LET p == CHOOSE q \in prefixes :
                          /\ MatchAt(s, q, i)
                          /\ i + Len(q) <= Len(s)
                          /\ ~IsSpace(s[i + Len(q)])
              IN  ReSubFrom(s, prefixes, SpaceEnd(s, RunEnd(s, i + Len(p))) + 1)
         ELSE <<s[i]>> \o ReSubFrom(s, prefixes, i + 1)

---------------------------------------------------------------------------
(* String constants of the program *)

sFrom ==
    <<"f","r","o","m",":">>

sSince ==
    <<"s","i","n","c","e",":">>

sUntil ==
    <<"u","n","t","i","l",":">>

sLang ==
    <<"l","a","n","g",":">>

sLangId ==
    <<"l","a","n","g",":","i","d">>

\* the operator list of is_twitter_advanced_query
twitter_operators ==
    { sFrom, sSince, sUntil, sLang,
      <<"f","i","l","t","e","r",":">>,
      <<" ","-">>, <<"#">>, <<"@">>, <<"\"">>, <<"?">>,
      <<" ","O","R"," ">>, <<" ","A","N","D"," ">> }

\* stop words of GroqQueryParser.fallback_parse
parser_stop_words ==
    { <<"t","e","n","t","a","n","g">>, <<"m","e","n","g","e","n","a","i">>,
      <<"d","a","r","i">>, <<"p","a","d","a">>, <<"d","i">>, <<"k","e">>,
      <<"y","a","n","g">>, <<"u","n","t","u","k">>, <<"d","e","n","g","a","n">> }

\* stop words of SmartCrawler._extract_keywords
crawler_stop_words ==
    parser_stop_words \cup
    { <<"b","a","g","a","i","m","a","n","a">>, <<"a","p","a">>,
      <<"s","i","a","p","a">>, <<"k","a","p","a","n">>,
      <<"d","i","m","a","n","a">> }

indonesian_indicators ==
    { <<"i","n","d","o","n","e","s","i","a">>,
      <<"i","n","d","o","n","e","s","i","a","n">>,
      <<"j","o","k","o","w","i">>, <<"p","e","m","i","l","u">>,
      <<"p","r","e","s","i","d","e","n">>, <<"m","e","n","t","e","r","i">> }

\* the search expression of the second alternative approach
sTestQuery ==
    <<"f","r","o","m",":","t","a","n","y","a","k","a","n","r","l">>

\* Python None and a JSON number, as values that are not a str
PyNone ==
    <<"<None>">>

PyNumber ==
    <<"<number>">>

---------------------------------------------------------------------------
(* discord_bot.py: validation and classification *)

MAX_QUERY_LEN ==
    500

\* the characters re.sub(r'[^\w\s#@:\.\-"()?]', '', query) keeps
SanitizeKeeps(ch) ==
    \/ IsWordChar(ch)
    \/ IsSpace(ch)
    \/ ch \in {"#", "@", ":", ".", "-", "\"", "(", ")", "?"}

\* the length test with >= in place of >
validate_query_OffByOne(query) ==
    IF Len(query) = 0 \/ Len(query) >= MAX_QUERY_LEN
    THEN [sanitized |-> PyNone, error |-> "too_long_or_empty"]
    ELSE LET sanitized == Strip(SelectSeq(query, SanitizeKeeps))
         IN  IF Len(sanitized) = 0
             THEN [sanitized |-> PyNone, error |-> "invalid"]
             ELSE [sanitized |-> sanitized, error |-> "none"]

\* XSentimentBot.validate_query: (sanitized, error_msg)
validate_query(query) ==
    IF Len(query) = 0 \/ Len(query) > MAX_QUERY_LEN
    THEN [sanitized |-> PyNone, error |-> "too_long_or_empty"]
    ELSE LET sanitized == Strip(SelectSeq(query, SanitizeKeeps))
         IN  IF Len(sanitized) = 0
             THEN [sanitized |-> PyNone, error |-> "invalid"]
             ELSE [sanitized |-> sanitized, error |-> "none"]

\* the operator list without 'lang:'
is_twitter_advanced_query_NoLang(text) ==
    \E operator \in twitter_operators \ {sLang} : Contains(text, operator)

\* no input counts as structured
is_twitter_advanced_query_Never(text) ==
    FALSE

\* XSentimentBot.is_twitter_advanced_query
is_twitter_advanced_query(text) ==
    \E operator \in twitter_operators : Contains(text, operator)

---------------------------------------------------------------------------
(* groq_parser.py: the completion service client and its two users *)

\* Exception classes the model distinguishes; all derive from Exception
ExceptionClasses ==
    { "RequestException", "KeyError", "IndexError", "TypeError", "ValueError",
      "CalledProcessError", "TimeoutExpired", "OSError", "ParserError" }

\* the except clauses of _call_groq_api
GroqApiCatches(exc) ==
    exc \in {"RequestException", "KeyError", "IndexError"}

\* the client without the test of the credential
call_groq_api_NoKeyCheck(api_key, o) ==
    IF o.exc = "none"
    THEN [ret |-> Strip(o.content), exc |-> "none", http |-> 1]
    ELSE IF GroqApiCatches(o.exc)
    THEN [ret |-> PyNone, exc |-> "none", http |-> 1]
    ELSE [ret |-> PyNone, exc |-> o.exc, http |-> 1]

\* the credential looked at only after the request was sent
call_groq_api_KeyCheckAfterPost(api_key, o) ==
    IF ~api_key
    THEN [ret |-> PyNone, exc |-> "none", http |-> 1]
    ELSE IF o.exc = "none"
    THEN [ret |-> Strip(o.content), exc |-> "none", http |-> 1]
    ELSE IF GroqApiCatches(o.exc)
    THEN [ret |-> PyNone, exc |-> "none", http |-> 1]
    ELSE [ret |-> PyNone, exc |-> o.exc, http |-> 1]

\* GroqQueryParser._call_groq_api. o is what the HTTP exchange does when a
\* request is sent: o.exc = "none" and a content, or the exception raised by
\* requests.post, raise_for_status, response.json or the subscripts.
\* ret is the returned value, exc the exception that leaves the method,
\* http whether a request was sent.
call_groq_api(api_key, o) ==
    IF ~api_key
    THEN [ret |-> PyNone, exc |-> "none", http |-> 0]
    ELSE IF o.exc = "none"
    THEN [ret |-> Strip(o.content), exc |-> "none", http |-> 1]
    ELSE IF GroqApiCatches(o.exc)
    THEN [ret |-> PyNone, exc |-> "none", http |-> 1]
    ELSE [ret |-> PyNone, exc |-> o.exc, http |-> 1]

\* truth value of what _call_groq_api returns
Truthy(v) ==
    v # PyNone /\ Len(v) > 0

\* GroqQueryParser.fallback_parse
fallback_parse(user_input) ==
    LET words    == Split(Lower(user_input))
        keywords == SelectSeq(words,
                        LAMBDA word : word \notin parser_stop_words /\ Len(word) > 2)
        withLang == IF \E indicator \in indonesian_indicators :
                           Contains(Lower(user_input), indicator)
                    THEN Append(keywords, sLangId)
                    ELSE keywords
    IN  Join(Take(withLang, 5))

\* the except Exception clause of parse_natural_language
ParseCatches(exc) ==
    exc \in ExceptionClasses

\* GroqQueryParser.parse_natural_language, given the result r of its
\* _call_groq_api call: [query, exc] with exc the exception that leaves it
parse_natural_language(user_input, r) ==
    IF r.exc # "none"
    THEN IF ParseCatches(r.exc)
         THEN [query |-> fallback_parse(user_input), exc |-> "none"]
         ELSE [query |-> PyNone, exc |-> r.exc]
    ELSE IF Truthy(r.ret)
    THEN [query |-> FirstLine(RemoveQuotes(r.ret)), exc |-> "none"]
    ELSE [query |-> fallback_parse(user_input), exc |-> "none"]

(* A verdict response is text in which the members of a JSON object (the   *)
(* text between its braces) are held as one element, a marker that         *)
(* VerdictTable maps to the members' values; confidence is held in tenths. *)
JAbsent ==
    <<"<absent>">>

\* stands for the text of the query the prompt quotes
Echo ==
    <<"<echo>">>

JNum(n) ==
    [t |-> "num", v |-> n]

JNoNum ==
    [t |-> "absent", v |-> 0]

NoMembers ==
    [is_too_restrictive |-> "absent", confidence |-> JNoNum,
     suggestions |-> "absent", alternative_query |-> JAbsent]

sPemilu ==
    <<"p","e","m","i","l","u">>

\* a JSON string where a number is expected
JWord ==
    [t |-> "str", v |-> 0]

VerdictTable ==
    [ m \in {"<restrictive>", "<restrictive-echo>", "<fine>",
             "<overconfident>", "<worded>"} |->
        CASE m = "<restrictive>" ->
                [is_too_restrictive |-> "true", confidence |-> JNum(8),
                 suggestions |-> "given", alternative_query |-> sPemilu]
          [] m = "<restrictive-echo>" ->
                [is_too_restrictive |-> "true", confidence |-> JNum(6),
                 suggestions |-> "given", alternative_query |-> Echo]
          [] m = "<fine>" ->
                [is_too_restrictive |-> "false", confidence |-> JNum(9),
                 suggestions |-> "given", alternative_query |-> Echo]
          [] m = "<overconfident>" ->
                [is_too_restrictive |-> "false", confidence |-> JNum(15),
                 suggestions |-> "given", alternative_query |-> Echo]
          [] m = "<worded>" ->
                [is_too_restrictive |-> "false", confidence |-> JWord,
                 suggestions |-> "given", alternative_query |-> Echo] ]

LBrace ==
    "{"

RBrace ==
    "}"

\* json.loads of the text: an object (a dict), or JSONDecodeError
json_loads(text) ==
    IF Len(text) = 2 /\ text[1] = LBrace /\ text[2] = RBrace
    THEN [ok |-> TRUE, dict |-> NoMembers]
    ELSE IF /\ Len(text) = 3
            /\ text[1] = LBrace
            /\ text[2] \in DOMAIN VerdictTable
            /\ text[3] = RBrace
    THEN [ok |-> TRUE, dict |-> VerdictTable[text[2]]]
    ELSE [ok |-> FALSE, dict |-> NoMembers]

\* the dict the service wrote about query: an echoed query is that query
Said(dict, query) ==
    IF dict.alternative_query = Echo
    THEN [dict EXCEPT !.alternative_query = query]
    ELSE dict

\* analysis_response.find('{'), 1-based, 0 when there is none
FindLBrace(resp) ==
    IF \E i \in 1..Len(resp) : resp[i] = LBrace
    THEN CHOOSE i \in 1..Len(resp) :
            resp[i] = LBrace /\ \A j \in 1..(i-1) : resp[j] # LBrace
    ELSE 0

\* analysis_response.rfind('}') + 1 as the inclusive 1-based end, 0 when
\* there is none
RFindRBrace(resp) ==
    IF \E i \in 1..Len(resp) : resp[i] = RBrace
    THEN CHOOSE i \in 1..Len(resp) :
            resp[i] = RBrace /\ \A j \in (i+1)..Len(resp) : resp[j] # RBrace
    ELSE 0

\* a default verdict that calls the query too restrictive
DefaultVerdict_Restrictive(query, confidence, suggestion) ==
    [is_too_restrictive |-> "true", confidence |-> JNum(confidence),
     suggestions |-> suggestion, alternative_query |-> query]

DefaultVerdict(query, confidence, suggestion) ==
    [is_too_restrictive |-> "false", confidence |-> JNum(confidence),
     suggestions |-> suggestion, alternative_query |-> query]

\* the except Exception clause of validate_query_complexity
ComplexityCatches(exc) ==
    exc \in ExceptionClasses

\* GroqQueryParser.validate_query_complexity, given the result r of its
\* _call_groq_api call: [verdict, exc] with exc the exception that leaves it
validate_query_complexity(query, r) ==
    IF r.exc # "none"
    THEN IF ComplexityCatches(r.exc)
         THEN [verdict |-> DefaultVerdict(query, 3, "Analysis unavailable"),
               exc |-> "none"]
         ELSE [verdict |-> NoMembers, exc |-> r.exc]
    ELSE IF ~Truthy(r.ret) \/ FindLBrace(r.ret) = 0
    THEN [verdict |-> DefaultVerdict(query, 5, "No analysis available"),
          exc |-> "none"]
    ELSE LET parsed == json_loads(SubSeq(r.ret, FindLBrace(r.ret), RFindRBrace(r.ret)))
         IN  IF parsed.ok
             THEN [verdict |-> Said(parsed.dict, query), exc |-> "none"]
             ELSE [verdict |-> DefaultVerdict(query, 5, "No analysis available"),
                   exc |-> "none"]

---------------------------------------------------------------------------
(* smart_crawler.py: the fallback strategies *)

\* SmartCrawler._remove_date_filters
remove_date_filters(query) ==
    Strip(ReSubFrom(query, {sSince, sUntil}, 1))

\* SmartCrawler._remove_language_filter
remove_language_filter(query) ==
    Strip(ReSubFrom(query, {sLang}, 1))

\* the first five keywords, as fallback_parse takes them
extract_keywords_FirstFive(text) ==
    LET words    == Split(Lower(text))
        keywords == SelectSeq(words,
                        LAMBDA word : word \notin crawler_stop_words /\ Len(word) > 2)
    IN  IF Len(keywords) > 0 THEN Join(Take(keywords, 5)) ELSE text

\* SmartCrawler._extract_keywords
extract_keywords(text) ==
    LET words    == Split(Lower(text))
        keywords == SelectSeq(words,
                        LAMBDA word : word \notin crawler_stop_words /\ Len(word) > 2)
    IN  IF Len(keywords) > 0 THEN Join(Take(keywords, 3)) ELSE text

\* complexity_check.get('is_too_restrictive', False) as a truth value
IsTooRestrictive(verdict) ==
    verdict.is_too_restrictive \in {"true", "string"}

\* complexity_check.get('alternative_query', optimized_query)
AlternativeQuery(verdict, optimized_query) ==
    IF verdict.alternative_query = JAbsent
    THEN optimized_query
    ELSE verdict.alternative_query

Strategy1(optimized_query) ==
    IF Contains(optimized_query, sSince) \/ Contains(optimized_query, sUntil)
    THEN << [query |-> remove_date_filters(optimized_query),
             strategy |-> "Remove date filters"] >>
    ELSE <<>>

Strategy2(optimized_query) ==
    IF Contains(optimized_query, sLang)
    THEN << [query |-> remove_language_filter(optimized_query),
             strategy |-> "Remove language filter"] >>
    ELSE <<>>

Strategy3(original_input, optimized_query) ==
    IF /\ Len(extract_keywords(original_input)) > 0
       /\ extract_keywords(original_input) # optimized_query
    THEN << [query |-> extract_keywords(original_input),
             strategy |-> "Keyword-only approach"] >>
    ELSE <<>>

\* the alternative query taken whatever the verdict says
Strategy4_Unconditional(optimized_query, verdict) ==
    << [query |-> AlternativeQuery(verdict, optimized_query),
        strategy |-> "Complexity-reduced query"] >>

Strategy4(optimized_query, verdict) ==
    IF /\ IsTooRestrictive(verdict)
       /\ AlternativeQuery(verdict, optimized_query) # optimized_query
    THEN << [query |-> AlternativeQuery(verdict, optimized_query),
             strategy |-> "Complexity-reduced query"] >>
    ELSE <<>>

\* the strategies with the keyword-only approach first
generate_fallback_queries_KeywordsFirst(original_input, optimized_query, verdict) ==
    Strategy3(original_input, optimized_query)
        \o Strategy1(optimized_query)
        \o Strategy2(optimized_query)
        \o Strategy4(optimized_query, verdict)

\* SmartCrawler._generate_fallback_queries, given the verdict of the
\* validate_query_complexity call it makes itself
generate_fallback_queries(original_input, optimized_query, verdict) ==
    Strategy1(optimized_query)
        \o Strategy2(optimized_query)
        \o Strategy3(original_input, optimized_query)
        \o Strategy4(optimized_query, verdict)

\* one retry more
max_retries_Three ==
    1 + 2

\* SmartCrawler.max_retries
max_retries ==
    2

---------------------------------------------------------------------------
(* config.py and the data-source tool *)

\* Config.DEFAULT_SEARCH_QUERY
DEFAULT_SEARCH_QUERY ==
    <<"f","r","o","m",":","t","a","n","y","a","k","a","n","r","l"," ",
      "l","a","n","g",":","i","d"," ",
      "u","n","t","i","l",":","2","0","2","4","-","1","0","-","2","9"," ",
      "s","i","n","c","e",":","2","0","2","4","-","1","0","-","0","1">>

\* the limit of process_advanced_search in _try_crawl too
TRY_CRAWL_LIMIT_AsAdvanced ==
    50 + 50

\* the limit SmartCrawler._try_crawl passes to crawl_tweets
TRY_CRAWL_LIMIT ==
    50

\* the limit process_advanced_search passes to crawl_tweets
ADVANCED_LIMIT ==
    100

\* the -l argument of the second alternative approach
TEST_LIMIT ==
    10

\* The places crawl_tweets looks for Config.DEFAULT_FILENAME:
\* tweets-data/<filename>, <filename> (the same file as ./<filename>) and
\* ../<filename>
Locations ==
    {"tweets-data", "cwd", "parent"}

\* possible_paths of crawl_tweets
possible_paths ==
    <<"tweets-data", "cwd", "cwd", "parent">>

\* possible_paths of try_alternative_crawl_method
alt_possible_paths ==
    <<"cwd", "tweets-data", "cwd">>

NoFile ==
    [exists |-> FALSE, readable |-> FALSE, expr |-> <<>>, n |-> 0, by |-> 0]

\* pd.DataFrame()
EmptyDF ==
    [n |-> 0, expr |-> <<>>, by |-> 0]

\* pd.read_csv of a readable file: rows keep the search expression and the
\* handler of the tool run that wrote them; a frame without rows is empty
ReadCsv(file) ==
    IF file.n = 0
    THEN EmptyDF
    ELSE [n |-> file.n, expr |-> file.expr, by |-> file.by]

\* rows a tool run may write: none or some
MaxRows ==
    1

\* What one run of the tool for search expression expr, started by handler
\* c, may leave on disk: nothing; the output file in the tool's output
\* directory, holding 0..MaxRows rows of expr or text pd.read_csv cannot
\* parse; or the output file with rows in the working directory.
ToolWrites(expr, c) ==
    { [loc |-> "none", file |-> NoFile] }
    \cup { [loc  |-> "tweets-data",
            file |-> [exists |-> TRUE, readable |-> TRUE, expr |-> expr,
                      n |-> k, by |-> c]] : k \in 0..MaxRows }
    \cup { [loc  |-> "tweets-data",
            file |-> [exists |-> TRUE, readable |-> FALSE, expr |-> expr,
                      n |-> 0, by |-> c]],
           [loc  |-> "cwd",
            file |-> [exists |-> TRUE, readable |-> TRUE, expr |-> expr,
                      n |-> MaxRows, by |-> c]] }

\* What subprocess.run may do: return code 0, after which the tool may have
\* written its output file; a non-zero return code; TimeoutExpired; or
\* another exception (OSError)
ToolRuns(expr, c) ==
    { [rc |-> "zero", write |-> w] : w \in ToolWrites(expr, c) }
    \cup { [rc |-> r, write |-> [loc |-> "none", file |-> NoFile]] :
             r \in {"nonzero", "timeout", "oserror"} }

\* the disk after a tool run
Written(d, run) ==
    IF run.write.loc = "none"
    THEN d
    ELSE [d EXCEPT ![run.write.loc] = run.write.file]

\* the first index of paths that satisfies P on disk d, 0 if none
FirstPath(d, paths, P(_)) ==
    IF \E i \in 1..Len(paths) : P(d[paths[i]])
    THEN CHOOSE i \in 1..Len(paths) :
            P(d[paths[i]]) /\ \A j \in 1..(i-1) : ~P(d[paths[j]])
    ELSE 0

\* crawl_tweets, the loop over possible_paths: the first path that exists
\* and that pd.read_csv can read is returned; a path whose read fails is
\* skipped; with none, an empty frame
ScanPaths(d) ==
    LET i == FirstPath(d, possible_paths, LAMBDA f : f.exists /\ f.readable)
    IN  IF i = 0 THEN EmptyDF ELSE ReadCsv(d[possible_paths[i]])

\* try_alternative_crawl_method, the loop over its possible_paths after a
\* run with return code 0: the first path that exists is read; found is
\* FALSE when no path exists, exc is the exception of a failed read
AltScanPaths(d) ==
    LET i == FirstPath(d, alt_possible_paths, LAMBDA f : f.exists)
    IN  IF i = 0
        THEN [found |-> FALSE, exc |-> "none", df |-> EmptyDF]
        ELSE IF d[alt_possible_paths[i]].readable
        THEN [found |-> TRUE, exc |-> "none", df |-> ReadCsv(d[alt_possible_paths[i]])]
        ELSE [found |-> TRUE, exc |-> "ParserError", df |-> EmptyDF]

\* the search expression and limit of alternative approach k
AltExpr(k, search_keyword) ==
    IF k = 1 THEN search_keyword ELSE sTestQuery

AltLimit(k, limit) ==
    IF k = 1 THEN limit ELSE TEST_LIMIT

\* a handler for the errors of the tool process only
TryCrawlCatches_ProcessErrors(exc) ==
    exc \in {"CalledProcessError", "TimeoutExpired"}

\* the except Exception clause of SmartCrawler._try_crawl
TryCrawlCatches(exc) ==
    exc \in ExceptionClasses

---------------------------------------------------------------------------
(* The environment: messages, completion service answers *)

\* the concurrently running message handlers of the bot
Handlers ==
    {1, 2}

\* message texts after the '@XS' prefix
mBlank ==
    <<" ">>

\* a hashtag of exactly MAX_QUERY_LEN characters, and one character more
mLong500 ==
    [i \in 1..MAX_QUERY_LEN |-> IF i = 1 THEN "#" ELSE "a"]

mLong501 ==
    [i \in 1..(MAX_QUERY_LEN + 1) |-> IF i = 1 THEN "#" ELSE "a"]

mAlice ==
    <<" ","f","r","o","m",":","a","l","i","c","e"," ","s","i","n","c","e",
      ":","2","0","2","4","-","0","1","-","0","1"," ","u","n","t","i","l",
      ":","2","0","2","4","-","0","1","-","0","2">>

mSentimen ==
    <<" ","s","e","n","t","i","m","e","n"," ","t","e","n","t","a","n","g"," ",
      "p","e","m","i","l","u","!">>

mHashtag ==
    <<" ","#","p","e","m","i","l","u"," ","l","a","n","g",":","i","d">>

mBangs ==
    <<" ","!","!","!">>

mKopi ==
    <<" ","k","o","p","i">>

Messages ==
    { mBlank, mLong500, mLong501, mAlice, mSentimen, mHashtag,
      mBangs, mKopi }

\* what an HTTP exchange with the completion service does
Answer(content) ==
    [exc |-> "none", content |-> content]

Failure(exc) ==
    [exc |-> exc, content |-> <<>>]

\* network error or bad status (RequestException), a body that is not JSON
\* (a RequestException or, with older versions of requests, a ValueError),
\* a body without choices[0].message.content (KeyError, IndexError) or with
\* values of another type there (TypeError)
ServiceFailures ==
    { Failure(e) : e \in {"RequestException", "ValueError", "KeyError",
                          "IndexError", "TypeError"} }

rFull ==
    <<"p","e","m","i","l","u"," ","l","a","n","g",":","i","d"," ","s","i",
      "n","c","e",":","2","0","2","4","-","0","1","-","0","1">>

rQuotedKopi ==
    <<"\"","k","o","p","i","\"">>

rQuotes ==
    <<"\"","\"">>

RewriteOutcomes ==
    { Answer(rFull), Answer(rQuotedKopi), Answer(rQuotes), Answer(<<>>) }
        \cup ServiceFailures

VerdictOutcomes ==
    { Answer(<<"o", "k", " ", LBrace, "<restrictive>", RBrace>>),
      Answer(<<LBrace, "<restrictive-echo>", RBrace>>),
      Answer(<<"n", "o">>) }
        \cup ServiceFailures

---------------------------------------------------------------------------
(* State *)

VARIABLES
    api_key,        \* GroqQueryParser.api_key is set
    messages,       \* the messages each handler may be given in this run
    disk,           \* the output file at each location
    pc,             \* where each handler is: "idle" before its message,
                    \* "done" after its terminal message
    req,            \* handle_unified_analysis: user_input, validated_input,
                    \* error_msg
    ss,             \* smart_search: optimized_query, complexity_check,
                    \* fallback_queries, i
    crawl,          \* crawl_tweets: search_keyword, limit, caller, approach
    result,         \* what the last crawl_tweets call returned to its caller
    outcome,        \* what smart_search returned
    reply,          \* the terminal message sent to the channel
    attempts,       \* history: the fetch attempts of the current request
    service_calls,  \* history: _call_groq_api calls of the current request
    escaped,        \* history: the exception that left smart_search
    unit,           \* the parser and the classifier called on their own:
                    \* the input and the calls made with it
    data            \* the preprocessor and the analyzer called on their
                    \* own: the frame or list given and what came back

vars ==
    << api_key, messages, disk, pc, req, ss, crawl, result, outcome,
       reply, attempts, service_calls, escaped, unit, data >>

\* the state of the message handlers
botvars ==
    << api_key, messages, disk, pc, req, ss, crawl, result, outcome,
       reply, attempts, service_calls, escaped >>

\* the state of the functions called on their own
aside ==
    << unit, data >>

NoFrame ==
    [columns |-> {}, rows |-> <<>>]

NoData ==
    [fn |-> "none", step |-> 0, frame_in |-> NoFrame, frame |-> NoFrame,
     tokens_in |-> <<>>, tokens_out |-> <<>>, tweets |-> <<>>, top_n |-> 0,
     top |-> <<>>, texts |-> 0, scored |-> <<>>]

NoUnit ==
    [fn |-> "none", user_input |-> <<>>, classified |-> "none",
     rewrites |-> <<>>, verdicts |-> <<>>, fallbacks |-> <<>>,
     validated |-> <<>>]

NoRequest ==
    [user_input |-> <<>>, validated_input |-> PyNone, error |-> "none"]

NoSearch ==
    [optimized_query |-> PyNone, complexity_check |-> NoMembers,
     fallback_queries |-> <<>>, i |-> 0]

NoCrawl ==
    [search_keyword |-> PyNone, limit |-> 0, caller |-> "none", approach |-> 0]

NoOutcome ==
    [success |-> FALSE, original_input |-> <<>>, used_query |-> PyNone,
     data |-> EmptyDF, query_type |-> "none", strategy |-> "absent",
     complexity_check |-> NoMembers]

NoCalls ==
    [rewrite |-> 0, verdict |-> 0, http |-> 0]

\* the output file an earlier run of the program has left: main.py crawls
\* Config.DEFAULT_SEARCH_QUERY into the same file
Leftover ==
    [exists |-> TRUE, readable |-> TRUE, expr |-> DEFAULT_SEARCH_QUERY,
     n |-> MaxRows, by |-> 0]

EmptyDisk ==
    [l \in Locations |-> NoFile]

InitCommon ==
    /\ req = [c \in Handlers |-> NoRequest]
    /\ ss = [c \in Handlers |-> NoSearch]
    /\ crawl = [c \in Handlers |-> NoCrawl]
    /\ result = [c \in Handlers |-> EmptyDF]
    /\ outcome = [c \in Handlers |-> NoOutcome]
    /\ reply = [c \in Handlers |-> "none"]
    /\ attempts = [c \in Handlers |-> <<>>]
    /\ service_calls = [c \in Handlers |-> NoCalls]
    /\ escaped = [c \in Handlers |-> "none"]

\* one handler at a time, any message, with or without a credential
Init ==
    /\ InitCommon
    /\ api_key \in BOOLEAN
    /\ messages = [c \in Handlers |-> Messages]
    /\ disk \in {EmptyDisk, [EmptyDisk EXCEPT !["tweets-data"] = Leftover]}
    /\ pc = [c \in Handlers |-> IF c = 1 THEN "idle" ELSE "off"]
    /\ unit = NoUnit
    /\ data = NoData

\* two handlers at once, the first given a natural-language message and the
\* second a natural-language or a structured one, without a credential, on a
\* disk without output file
InitConc ==
    /\ InitCommon
    /\ api_key = FALSE
    /\ messages = [c \in Handlers |-> IF c = 1 THEN {mSentimen}
                                          ELSE {mKopi, mHashtag}]
    /\ disk = EmptyDisk
    /\ pc = [c \in Handlers |-> "idle"]
    /\ unit = NoUnit
    /\ data = NoData

---------------------------------------------------------------------------
(* Steps shared by the actions *)

\* the handler returns without a message to the channel
Finish_NoReply(c, message) ==
    /\ reply' = reply
    /\ pc' = [pc EXCEPT ![c] = "done"]

\* the handler sends its terminal message and is done with the request
Finish(c, message) ==
    /\ reply' = [reply EXCEPT ![c] = message]
    /\ pc' = [pc EXCEPT ![c] = "done"]

\* crawl_tweets is called: the defaults for None arguments (lines 111-116)
BeginCrawl(c, prior, query, limit, label, strategy, caller) ==
    /\ crawl' = [crawl EXCEPT ![c] =
                    [search_keyword |-> IF query = PyNone
                                        THEN DEFAULT_SEARCH_QUERY ELSE query,
                     limit |-> limit, caller |-> caller, approach |-> 0]]
    /\ attempts' = [attempts EXCEPT ![c] =
                    Append(prior, [query |-> query, limit |-> limit,
                                   label |-> label, strategy |-> strategy,
                                   returned |-> FALSE, raised |-> "none",
                                   rows |-> EmptyDF])]
    /\ pc' = [pc EXCEPT ![c] = "crawl_run"]

AfterCrawl(caller) ==
    CASE caller = "primary"  -> "ss_after_primary"
      [] caller = "fallback" -> "ss_after_fallback"
      [] caller = "advanced" -> "adv_after"

\* crawl_tweets returns df or raises exc. Called through _try_crawl, an
\* exception that its handler catches becomes an empty frame, and one it
\* does not catch leaves smart_search and reaches the except clause of
\* process_natural_language; called from process_advanced_search, it
\* reaches the except clause there. Both answer with
\* handle_processing_error.
CrawlReturn(c, df, exc) ==
    LET rows == IF exc = "none" THEN df ELSE EmptyDF
    IN  /\ attempts' = [attempts EXCEPT ![c][Len(attempts[c])] =
                          [@ EXCEPT !.returned = TRUE, !.raised = exc,
                                    !.rows = rows]]
        /\ result' = [result EXCEPT ![c] = rows]
        /\ IF exc = "none" \/ (crawl[c].caller # "advanced" /\ TryCrawlCatches(exc))
           THEN /\ pc' = [pc EXCEPT ![c] = AfterCrawl(crawl[c].caller)]
                /\ UNCHANGED <<reply, escaped>>
           ELSE /\ Finish(c, "error")
                /\ escaped' = [escaped EXCEPT ![c] =
                                 IF crawl[c].caller = "advanced" THEN @ ELSE exc]

---------------------------------------------------------------------------
(* smart_crawler.py: the decisions and results of smart_search *)

\* process_tweet_data ends with the results sent, or raises and
\* handle_processing_error sends the error message
PipelineReplies ==
    { "results", "processing_error" }

\* the test without its negation
ResultFound_Inverted(df) ==
    df.n = 0

\* if not result.empty
ResultFound(df) ==
    df.n > 0

\* the loop without its cap
LoopContinues_NoCap(i, fallback_queries) ==
    i < Len(fallback_queries)

\* the for loop of smart_search runs its body for index i
LoopContinues(i, fallback_queries) ==
    i < Len(fallback_queries) /\ i < max_retries

QueryType(i) ==
    CASE i = 0 -> "fallback_1"
      [] i = 1 -> "fallback_2"
      [] OTHER -> "fallback_n"

FallbackLabel(i) ==
    CASE i = 0 -> "Fallback 1"
      [] i = 1 -> "Fallback 2"
      [] OTHER -> "Fallback n"

PrimaryOutcome(user_input, s, df) ==
    [success |-> TRUE, original_input |-> user_input,
     used_query |-> s.optimized_query, data |-> df,
     query_type |-> "ai_optimized", strategy |-> "absent",
     complexity_check |-> s.complexity_check]

FallbackOutcome(user_input, s, df) ==
    [success |-> TRUE, original_input |-> user_input,
     used_query |-> s.fallback_queries[s.i + 1].query, data |-> df,
     query_type |-> QueryType(s.i),
     strategy |-> s.fallback_queries[s.i + 1].strategy,
     complexity_check |-> s.complexity_check]

\* the failed outcome reporting the last fallback query that was tried
FailedOutcome_LastTried(user_input, s) ==
    [success |-> FALSE, original_input |-> user_input,
     used_query |-> IF s.i > 0
                    THEN s.fallback_queries[s.i].query
                    ELSE s.optimized_query,
     data |-> EmptyDF, query_type |-> "failed", strategy |-> "absent",
     complexity_check |-> s.complexity_check]

FailedOutcome(user_input, s) ==
    [success |-> FALSE, original_input |-> user_input,
     used_query |-> s.optimized_query, data |-> EmptyDF,
     query_type |-> "failed", strategy |-> "absent",
     complexity_check |-> s.complexity_check]

---------------------------------------------------------------------------
(* Actions *)

\* the two processing paths exchanged
Route_Swapped(validated_input) ==
    IF is_twitter_advanced_query(validated_input) THEN "natural" ELSE "advanced"

\* every input sent through smart_search
Route_AlwaysNatural(validated_input) ==
    "natural"

\* handle_unified_analysis, the choice of the processing path
Route(validated_input) ==
    IF is_twitter_advanced_query(validated_input)
    THEN "advanced"
    ELSE "natural"

\* on_message for an '@XS' message and handle_unified_analysis: strip,
\* validate, classify, and start process_advanced_search (which calls
\* crawl_tweets itself) or process_natural_language (which calls
\* smart_search)
OnMessage(c) ==
    /\ pc[c] = "idle"
    /\ UNCHANGED aside
    /\ \E content \in messages[c] :
        LET user_input == Strip(content)
            v == validate_query(user_input)
        IN  /\ req' = [req EXCEPT ![c] = [user_input |-> user_input,
                                          validated_input |-> v.sanitized,
                                          error |-> v.error]]
            /\ IF Len(user_input) = 0
               THEN /\ Finish(c, "format_error")
                    /\ UNCHANGED <<attempts, crawl>>
               ELSE IF v.error # "none"
               THEN /\ Finish(c, "validation_error")
                    /\ UNCHANGED <<attempts, crawl>>
               ELSE IF Route(v.sanitized) = "advanced"
               THEN /\ BeginCrawl(c, <<>>, v.sanitized, ADVANCED_LIMIT,
                                  "Advanced Search", "advanced", "advanced")
                    /\ UNCHANGED reply
               ELSE /\ pc' = [pc EXCEPT ![c] = "ss_parse"]
                    /\ UNCHANGED <<reply, attempts, crawl>>
    /\ UNCHANGED <<api_key, messages, disk, ss, result, outcome,
                   service_calls, escaped>>

\* smart_search, step 1: parse_natural_language
ParseStep(c) ==
    /\ pc[c] = "ss_parse"
    /\ UNCHANGED aside
    /\ \E o \in RewriteOutcomes :
        LET r == call_groq_api(api_key, o)
            p == parse_natural_language(req[c].validated_input, r)
        IN  /\ service_calls' = [service_calls EXCEPT ![c].rewrite = @ + 1,
                                                      ![c].http = @ + r.http]
            /\ IF p.exc = "none"
               THEN /\ ss' = [ss EXCEPT ![c].optimized_query = p.query]
                    /\ pc' = [pc EXCEPT ![c] = "ss_complexity"]
                    /\ UNCHANGED <<reply, escaped>>
               ELSE /\ Finish(c, "error")
                    /\ escaped' = [escaped EXCEPT ![c] = p.exc]
                    /\ UNCHANGED ss
    /\ UNCHANGED <<api_key, messages, disk, req, crawl, result, outcome, attempts>>

\* smart_search, steps 2 and 3: validate_query_complexity, then _try_crawl
\* of the optimized query
ComplexityStep(c) ==
    /\ pc[c] = "ss_complexity"
    /\ UNCHANGED aside
    /\ \E o \in VerdictOutcomes :
        LET r == call_groq_api(api_key, o)
            v == validate_query_complexity(ss[c].optimized_query, r)
        IN  /\ service_calls' = [service_calls EXCEPT ![c].verdict = @ + 1,
                                                      ![c].http = @ + r.http]
            /\ IF v.exc = "none"
               THEN /\ ss' = [ss EXCEPT ![c].complexity_check = v.verdict]
                    /\ BeginCrawl(c, attempts[c], ss[c].optimized_query,
                                  TRY_CRAWL_LIMIT, "Optimized query", "primary",
                                  "primary")
                    /\ UNCHANGED <<reply, escaped>>
               ELSE /\ Finish(c, "error")
                    /\ escaped' = [escaped EXCEPT ![c] = v.exc]
                    /\ UNCHANGED <<ss, crawl, attempts>>
    /\ UNCHANGED <<api_key, messages, disk, req, result, outcome>>

\* smart_search after the first _try_crawl: return the result, or step 4,
\* _generate_fallback_queries with its own validate_query_complexity call
AfterPrimary(c) ==
    /\ pc[c] = "ss_after_primary"
    /\ UNCHANGED aside
    /\ IF ResultFound(result[c])
       THEN /\ outcome' = [outcome EXCEPT ![c] =
                    PrimaryOutcome(req[c].validated_input, ss[c], result[c])]
            /\ pc' = [pc EXCEPT ![c] = "ss_return"]
            /\ UNCHANGED <<ss, service_calls, reply, escaped>>
       ELSE \E o \in VerdictOutcomes :
            LET r == call_groq_api(api_key, o)
                v == validate_query_complexity(ss[c].optimized_query, r)
            IN  /\ service_calls' = [service_calls EXCEPT ![c].verdict = @ + 1,
                                                          ![c].http = @ + r.http]
                /\ UNCHANGED outcome
                /\ IF v.exc = "none"
                   THEN /\ ss' = [ss EXCEPT
                              ![c].fallback_queries =
                                  generate_fallback_queries(req[c].validated_input,
                                      ss[c].optimized_query, v.verdict),
                              ![c].i = 0]
                        /\ pc' = [pc EXCEPT ![c] = "ss_loop"]
                        /\ UNCHANGED <<reply, escaped>>
                   ELSE /\ Finish(c, "error")
                        /\ escaped' = [escaped EXCEPT ![c] = v.exc]
                        /\ UNCHANGED ss
    /\ UNCHANGED <<api_key, messages, disk, req, crawl, result, attempts>>

\* smart_search, the head of the fallback loop: _try_crawl of the next
\* fallback query, or step 5, the failed outcome
LoopStep(c) ==
    /\ pc[c] = "ss_loop"
    /\ UNCHANGED aside
    /\ IF LoopContinues(ss[c].i, ss[c].fallback_queries)
       THEN /\ BeginCrawl(c, attempts[c],
                          ss[c].fallback_queries[ss[c].i + 1].query,
                          TRY_CRAWL_LIMIT, FallbackLabel(ss[c].i),
                          ss[c].fallback_queries[ss[c].i + 1].strategy,
                          "fallback")
            /\ UNCHANGED outcome
       ELSE /\ outcome' = [outcome EXCEPT ![c] =
                              FailedOutcome(req[c].validated_input, ss[c])]
            /\ pc' = [pc EXCEPT ![c] = "ss_return"]
            /\ UNCHANGED <<crawl, attempts>>
    /\ UNCHANGED <<api_key, messages, disk, req, ss, result, reply,
                   service_calls, escaped>>

\* smart_search, the body of the fallback loop after _try_crawl
AfterFallback(c) ==
    /\ pc[c] = "ss_after_fallback"
    /\ UNCHANGED aside
    /\ IF ResultFound(result[c])
       THEN /\ outcome' = [outcome EXCEPT ![c] =
                    FallbackOutcome(req[c].validated_input, ss[c], result[c])]
            /\ pc' = [pc EXCEPT ![c] = "ss_return"]
            /\ UNCHANGED ss
       ELSE /\ ss' = [ss EXCEPT ![c].i = @ + 1]
            /\ pc' = [pc EXCEPT ![c] = "ss_loop"]
            /\ UNCHANGED outcome
    /\ UNCHANGED <<api_key, messages, disk, req, crawl, result, reply,
                   attempts, service_calls, escaped>>

\* process_natural_language after smart_search returned
NLFinish(c) ==
    /\ pc[c] = "ss_return"
    /\ UNCHANGED aside
    /\ IF ~outcome[c].success
       THEN Finish(c, "analysis_failed")
       ELSE \E message \in PipelineReplies : Finish(c, message)
    /\ UNCHANGED <<api_key, messages, disk, req, ss, crawl, result, outcome,
                   attempts, service_calls, escaped>>

\* process_advanced_search after crawl_tweets returned
AdvFinish(c) ==
    /\ pc[c] = "adv_after"
    /\ UNCHANGED aside
    /\ IF ~ResultFound(result[c])
       THEN Finish(c, "no_tweets")
       ELSE \E message \in PipelineReplies : Finish(c, message)
    /\ UNCHANGED <<api_key, messages, disk, req, ss, crawl, result, outcome,
                   attempts, service_calls, escaped>>

\* os.makedirs may fail before the try block of crawl_tweets
MainRuns(expr, c) ==
    ToolRuns(expr, c)
        \cup { [rc |-> "makedirs_error", write |-> [loc |-> "none", file |-> NoFile]] }

\* crawl_tweets up to the end of subprocess.run: a search keyword that is no
\* str makes ' '.join(command) raise TypeError inside the try block
CrawlRun(c) ==
    /\ pc[c] = "crawl_run"
    /\ UNCHANGED aside
    /\ IF crawl[c].search_keyword = PyNumber
       THEN /\ \E exc \in {"none", "OSError"} : CrawlReturn(c, EmptyDF, exc)
            /\ UNCHANGED <<disk, crawl>>
       ELSE \E run \in MainRuns(crawl[c].search_keyword, c) :
            IF run.rc = "makedirs_error"
            THEN /\ CrawlReturn(c, EmptyDF, "OSError")
                 /\ UNCHANGED <<disk, crawl>>
            ELSE IF run.rc = "zero"
            THEN /\ disk' = Written(disk, run)
                 /\ pc' = [pc EXCEPT ![c] = "crawl_read"]
                 /\ UNCHANGED <<crawl, result, attempts, reply, escaped>>
            ELSE IF run.rc = "nonzero"
            THEN /\ disk' = Written(disk, run)
                 /\ crawl' = [crawl EXCEPT ![c].approach = 1]
                 /\ pc' = [pc EXCEPT ![c] = "crawl_alt"]
                 /\ UNCHANGED <<result, attempts, reply, escaped>>
            ELSE /\ CrawlReturn(c, EmptyDF, "none")
                 /\ UNCHANGED <<disk, crawl>>
    /\ UNCHANGED <<api_key, messages, req, ss, outcome, service_calls>>

\* crawl_tweets after time.sleep(3): the loop over possible_paths
CrawlRead(c) ==
    /\ pc[c] = "crawl_read"
    /\ UNCHANGED aside
    /\ CrawlReturn(c, ScanPaths(disk), "none")
    /\ UNCHANGED <<api_key, messages, disk, req, ss, crawl, outcome, service_calls>>

\* try_alternative_crawl_method, one approach: the run and, after return
\* code 0, the look for the file; an exception of the run or of the read
\* moves on to the next approach
CrawlAlt(c) ==
    /\ pc[c] = "crawl_alt"
    /\ UNCHANGED aside
    /\ \E run \in ToolRuns(AltExpr(crawl[c].approach, crawl[c].search_keyword), c) :
        LET d    == Written(disk, run)
            scan == AltScanPaths(d)
        IN  /\ disk' = d
            /\ IF run.rc = "zero" /\ scan.found /\ scan.exc = "none"
               THEN /\ CrawlReturn(c, scan.df, "none")
                    /\ UNCHANGED crawl
               ELSE IF crawl[c].approach = 2
               THEN /\ CrawlReturn(c, EmptyDF, "none")
                    /\ UNCHANGED crawl
               ELSE /\ crawl' = [crawl EXCEPT ![c].approach = 2]
                    /\ UNCHANGED <<pc, result, attempts, reply, escaped>>
    /\ UNCHANGED <<api_key, messages, req, ss, outcome, service_calls>>

Next ==
    \E c \in Handlers :
        \/ OnMessage(c)
        \/ ParseStep(c)
        \/ ComplexityStep(c)
        \/ AfterPrimary(c)
        \/ LoopStep(c)
        \/ AfterFallback(c)
        \/ NLFinish(c)
        \/ AdvFinish(c)
        \/ CrawlRun(c)
        \/ CrawlRead(c)
        \/ CrawlAlt(c)

\* one message is handled
Spec ==
    Init /\ [][Next]_vars

\* two messages are handled at the same time
SpecConc ==
    InitConc /\ [][Next]_vars

\* no handler has a step left: each one has sent its terminal message or
\* was given no message. A handler that has not ended always has a step,
\* so this is the negation of ENABLED <<Next>>_vars.
Quiet ==
    \A c \in Handlers : pc[c] \in {"done", "off"}

\* one message is handled under weak fairness of Next, written out as
\* "infinitely often not enabled or infinitely often taken": the requests
\* to the completion service and the runs of the tool have timeouts
\* (30 s, 300 s, 180 s), and the event loop resumes each awaited call, so a
\* handler that can take a step takes it in the end
SpecLive ==
    Init /\ [][Next]_vars /\ ([]<>Quiet \/ []<><<Next>>_vars)

---------------------------------------------------------------------------
(* preprocessor.py and analyzer.py: the functions on frames and lists *)

\* a null value of a frame (NaN, None)
NaN ==
    <<"<NaN>">>

\* a character of the class of the regular expression: \w or \S
InClass(ch, word) ==
    IF word THEN IsWordChar(ch) ELSE ~IsSpace(ch)

\* last index of the run of characters of the class that starts at i
ClassRunEnd(s, i, word) ==
    CHOOSE e \in i..Len(s) :
        /\ (e = Len(s) \/ ~InClass(s[e + 1], word))
        /\ \A j \in i..e : InClass(s[j], word)

RECURSIVE ReSubRunFrom(_, _, _, _)
\* re.sub(r'p1\w+|p2\w+|..', '', s), or with \S+, from index i on: a match
\* needs the prefix and at least one character of the class after it; the
\* run is greedy; the scan resumes after the match
ReSubRunFrom(s, prefixes, word, i) ==
    IF i > Len(s) THEN <<>>
    ELSE IF \E p \in prefixes :
                /\ MatchAt(s, p, i)
                /\ i + Len(p) <= Len(s)
                /\ InClass(s[i + Len(p)], word)
         THEN LET p == CHOOSE q \in prefixes :
                          /\ MatchAt(s, q, i)
                          /\ i + Len(q) <= Len(s)
                          /\ InClass(s[i + Len(q)], word)
              IN  ReSubRunFrom(s, prefixes, word, ClassRunEnd(s, i + Len(p), word) + 1)
         ELSE <<s[i]>> \o ReSubRunFrom(s, prefixes, word, i + 1)

url_prefixes ==
    { <<"h","t","t","p">>, <<"w","w","w">>, <<"h","t","t","p","s">> }

\* the four substitutions of clean_text on one text
scrub(x) ==
    LET noUrl     == ReSubRunFrom(x, url_prefixes, FALSE, 1)
        noMention == ReSubRunFrom(noUrl, {<<"@">>}, TRUE, 1)
        noHashtag == ReSubRunFrom(noMention, {<<"#">>}, TRUE, 1)
    IN  SelectSeq(noHashtag, LAMBDA ch : IsWordChar(ch) \/ IsSpace(ch))

\* Series.fillna('')
fillna(rows) ==
    [i \in 1..Len(rows) |->
        IF rows[i].full_text = NaN THEN [rows[i] EXCEPT !.full_text = <<>>]
        ELSE rows[i]]

\* nothing dropped
drop_duplicates_None(rows) ==
    rows

\* DataFrame.drop_duplicates(subset=['full_text']): the first row of each
\* text is kept
drop_duplicates(rows) ==
    LET kept == {i \in 1..Len(rows) :
                    \A j \in 1..(i - 1) : rows[j].full_text # rows[i].full_text}
        F[i \in 0..Len(rows)] ==
            IF i = 0 THEN <<>>
            ELSE IF i \in kept THEN Append(F[i - 1], rows[i]) ELSE F[i - 1]
    IN  F[Len(rows)]

\* preprocessor.clean_text
clean_text(df) ==
    LET filled  == fillna(df.rows)
        deduped == drop_duplicates(filled)
    IN  [df EXCEPT !.rows =
            [i \in 1..Len(deduped) |->
                [deduped[i] EXCEPT !.full_text = scrub(Lower(@))]]]

\* nltk word_tokenize on a cleaned text: lower case, no punctuation. The
\* words the Treebank rules split ('cannot', 'gonna', ..) are not among the
\* texts here, and the tokens are the words between white space.
word_tokenize(text) ==
    Split(text)

\* preprocessor.tokenize_text
tokenize_text(df) ==
    [columns |-> df.columns \cup {"tokens"},
     rows |-> [i \in 1..Len(df.rows) |->
                 [df.rows[i] EXCEPT !.tokens = word_tokenize(df.rows[i].full_text)]]]

\* Config.SLANG_DICT
SLANG_DICT ==
    <<"w","k","w","k","w","k","k","w","k","w">> :> <<"t","e","r","t","a","w","a">> @@
    <<"e","l","u">> :> <<"k","a","m","u">> @@
    <<"s","k","r","n","g">> :> <<"s","e","k","a","r","a","n","g">> @@
    <<"b","a","n","y","k">> :> <<"b","a","n","y","a","k">> @@
    <<"b","g","t">> :> <<"b","a","n","g","e","t">> @@
    <<"k","a","l","o">> :> <<"k","a","l","a","u">> @@
    <<"y","g">> :> <<"y","a","n","g">> @@
    <<"m","o">> :> <<"m","a","u">> @@
    <<"b","r","a","p","a">> :> <<"b","e","r","a","p","a">> @@
    <<"g","a">> :> <<"t","i","d","a","k">> @@
    <<"u","d","a","h">> :> <<"s","u","d","a","h">> @@
    <<"l","g">> :> <<"l","a","g","i">>

\* preprocessor.normalize_slang
normalize_slang(tokens, slang_dictionary) ==
    [i \in 1..Len(tokens) |->
        IF tokens[i] \in DOMAIN slang_dictionary
        THEN slang_dictionary[tokens[i]] ELSE tokens[i]]

\* preprocessor.apply_slang_normalization
apply_slang_normalization(df) ==
    [df EXCEPT !.rows =
        [i \in 1..Len(df.rows) |->
            [df.rows[i] EXCEPT !.tokens = normalize_slang(@, SLANG_DICT)]]]

\* the thresholds 0.05 and -0.05 of analyze_sentiment; compound scores are
\* held in ten-thousandths (polarity_scores rounds them to 4 decimals)
THRESHOLD ==
    500

\* the label with the bounds included
sentiment_label_Inclusive(compound) ==
    IF compound <= -THRESHOLD THEN "negative"
    ELSE IF compound >= THRESHOLD THEN "positive"
    ELSE "neutral"

\* SentimentAnalyzer.analyze_sentiment, the three assignments to
\* df['sentiment'] for one row
sentiment_label(compound) ==
    LET first  == "neutral"
        second == IF compound > THRESHOLD THEN "positive" ELSE first
    IN  IF compound < -THRESHOLD THEN "negative" ELSE second

\* the permutations of 1..n
Orders(n) ==
    {f \in [1..n -> 1..n] : \A i, j \in 1..n : f[i] = f[j] => i = j}

\* the sort in ascending order
sort_values_asc(rows) ==
    { [i \in 1..Len(rows) |-> rows[f[i]]] :
        f \in {g \in Orders(Len(rows)) :
                 \A i \in 1..(Len(rows) - 1) :
                     rows[g[i]].reply_count <= rows[g[i + 1]].reply_count} }

\* DataFrame.sort_values(by='reply_count', ascending=False): the default
\* sort is not stable, rows of equal reply_count come in any order
sort_values_desc(rows) ==
    { [i \in 1..Len(rows) |-> rows[f[i]]] :
        f \in {g \in Orders(Len(rows)) :
                 \A i \in 1..(Len(rows) - 1) :
                     rows[g[i]].reply_count >= rows[g[i + 1]].reply_count} }

\* DataFrame.head(n) for n >= 0
head(rows, n) ==
    SubSeq(rows, 1, IF Len(rows) < n THEN Len(rows) ELSE n)

\* SentimentAnalyzer.get_top_negative_tweets: the frames it may return
get_top_negative_tweets(rows, top_n) ==
    LET negative_df == SelectSeq(rows, LAMBDA r : r.sentiment = "negative")
    IN  { head(sorted, top_n) : sorted \in sort_values_desc(negative_df) }

---------------------------------------------------------------------------
(* The classifier and the two parser methods called on their own *)

\* sanitized inputs: without keyword, of stop words only, plain, with an
\* Indonesian indicator, one word of MAX_QUERY_LEN characters, and with
\* markers of the classifier
uAi ==
    <<"a","i">>

uStopWords ==
    <<"d","i"," ","k","e">>

uKopi ==
    <<"k","o","p","i">>

uSentimen ==
    <<"s","e","n","t","i","m","e","n"," ","t","e","n","t","a","n","g"," ",
      "p","e","m","i","l","u">>

uLongPemilu ==
    sPemilu \o [i \in 1..(MAX_QUERY_LEN - Len(sPemilu)) |-> "a"]

uFromBob ==
    <<"f","r","o","m",":","b","o","b">>

uKopiLang ==
    <<"k","o","p","i"," ","l","a","n","g",":","i","d">>

uQuestion ==
    <<"k","o","p","i","?">>

uLowerOr ==
    <<"k","o","p","i"," ","o","r"," ","t","e","h">>

\* an input whose capital letter hides 'lang:' from the classifier, and one
\* of six keywords with Indonesian indicators among them
uLangColon ==
    <<"L","a","n","g",":"," ","p","e","m","i","l","u">>

uSixKeywords ==
    <<"s","e","n","t","i","m","e","n"," ","m","a","s","y","a","r","a","k","a","t"," ",
      "i","n","d","o","n","e","s","i","a"," ","t","e","r","h","a","d","a","p"," ",
      "p","e","m","i","l","u"," ","p","r","e","s","i","d","e","n">>

UnitInputs ==
    { uAi, uStopWords, uKopi, uSentimen, uLongPemilu, uFromBob, uKopiLang,
      uQuestion, uLowerOr, uLangColon, uSixKeywords }

\* what a user typed after the mention, before validate_query: with
\* characters the sanitizer removes, next to a marker, inside a marker, and
\* away from the markers
wKopiBang ==
    <<"k","o","p","i","!">>

wBangMinus ==
    <<"!"," ","-","k","o","p","i">>

wOrBang ==
    <<"k","o","p","i"," ","O","R"," ","!">>

wSplitFrom ==
    <<"f","r","!","o","m",":","b","o","b">>

wHashtagComma ==
    <<"#","p","e","m","i","l","u",","," ","l","a","n","g",":","i","d">>

wBangs ==
    <<"!","!","!">>

RawInputs ==
    { wKopiBang, wBangMinus, wOrBang, wSplitFrom, wHashtagComma, wBangs,
      uKopi, uFromBob, uSentimen }

\* the inputs of each function
InputsOf(fn) ==
    CASE fn = "validate"  -> RawInputs
      [] fn = "fallbacks" -> UnitInputs \ {uLongPemilu}
      [] OTHER            -> UnitInputs

\* answers of two lines, of MAX_QUERY_LEN + 1 characters, of white space
rTwoLines ==
    <<"k","o","p","i","\n","s","u","s","u">>

rLong ==
    [i \in 1..(MAX_QUERY_LEN + 1) |-> "a"]

UnitRewriteOutcomes ==
    RewriteOutcomes \cup { Answer(rTwoLines), Answer(rLong), Answer(<<" ">>) }

\* an answer with a space after the colon of since:
rSpacedDate ==
    <<"p","e","m","i","l","u"," ","s","i","n","c","e",":"," ",
      "2","0","2","4","-","0","1","-","0","1">>

FallbackRewriteOutcomes ==
    RewriteOutcomes \cup { Answer(rSpacedDate) }

\* verdict answers: objects with each kind of confidence, an object inside
\* prose, and texts without a span that parses
UnitVerdictOutcomes ==
    VerdictOutcomes \cup
    { Answer(<<LBrace, RBrace>>),
      Answer(<<LBrace, "<fine>", RBrace>>),
      Answer(<<LBrace, "<overconfident>", RBrace>>),
      Answer(<<LBrace, "<worded>", RBrace>>),
      Answer(<<"s","e","e"," ", LBrace, "<fine>", RBrace, " ","o","k">>),
      Answer(<<LBrace>>),
      Answer(<<RBrace, " ", LBrace>>),
      Answer(<<LBrace, "x", RBrace>>),
      Answer(<<LBrace, "<fine>", RBrace, " ", LBrace, "x", RBrace>>),
      Answer(<<>>) }

\* a run calls one of the functions, with or without a credential
InitUnit ==
    /\ InitCommon
    /\ api_key \in BOOLEAN
    /\ messages = [c \in Handlers |-> {}]
    /\ disk = EmptyDisk
    /\ pc = [c \in Handlers |-> "off"]
    /\ \E fn \in {"classify", "rewrite", "assess", "fallbacks", "validate"} :
          \E user_input \in InputsOf(fn) :
              unit = [NoUnit EXCEPT !.fn = fn, !.user_input = user_input]
    /\ data = NoData

\* is_twitter_advanced_query(user_input)
Classify ==
    /\ unit.fn = "classify"
    /\ unit.classified = "none"
    /\ unit' = [unit EXCEPT !.classified =
                   IF is_twitter_advanced_query(unit.user_input)
                   THEN "structured" ELSE "natural_language"]
    /\ UNCHANGED <<botvars, data>>

\* parse_natural_language(user_input), twice
Rewrite ==
    /\ unit.fn = "rewrite"
    /\ Len(unit.rewrites) < 2
    /\ \E o \in UnitRewriteOutcomes :
        LET r == call_groq_api(api_key, o)
            p == parse_natural_language(unit.user_input, r)
        IN  unit' = [unit EXCEPT !.rewrites =
                        Append(@, [o |-> o, query |-> p.query, exc |-> p.exc,
                                   http |-> r.http])]
    /\ UNCHANGED <<botvars, data>>

\* validate_query_complexity(user_input)
Assess ==
    /\ unit.fn = "assess"
    /\ unit.verdicts = <<>>
    /\ \E o \in UnitVerdictOutcomes :
        LET r == call_groq_api(api_key, o)
            v == validate_query_complexity(unit.user_input, r)
        IN  unit' = [unit EXCEPT !.verdicts =
                        Append(@, [o |-> o, verdict |-> v.verdict, exc |-> v.exc,
                                   http |-> r.http])]
    /\ UNCHANGED <<botvars, data>>

\* _generate_fallback_queries(user_input, optimized_query), with the
\* optimized query parse_natural_language made of user_input: the list, or
\* the exception that leaves the validate_query_complexity call inside
GenerateFallbacks ==
    /\ unit.fn = "fallbacks"
    /\ unit.fallbacks = <<>>
    /\ \E ro \in FallbackRewriteOutcomes : \E vo \in UnitVerdictOutcomes :
        LET p == parse_natural_language(unit.user_input, call_groq_api(api_key, ro))
            r == call_groq_api(api_key, vo)
            v == validate_query_complexity(p.query, r)
        IN  /\ p.exc = "none"
            /\ unit' = [unit EXCEPT !.fallbacks =
                           Append(@, [ro |-> ro, vo |-> vo,
                                      optimized_query |-> p.query,
                                      verdict |-> v.verdict, exc |-> v.exc,
                                      http |-> r.http,
                                      queries |->
                                          IF v.exc = "none"
                                          THEN generate_fallback_queries(
                                                   unit.user_input, p.query, v.verdict)
                                          ELSE <<>>])]
    /\ UNCHANGED <<botvars, data>>

\* handle_unified_analysis on what the user typed: validate_query, then
\* is_twitter_advanced_query on the sanitized text
Validate ==
    /\ unit.fn = "validate"
    /\ unit.validated = <<>>
    /\ LET val == validate_query(unit.user_input)
       IN  unit' = [unit EXCEPT !.validated =
                       << [sanitized |-> val.sanitized, error |-> val.error,
                           route |-> IF val.error # "none" THEN "rejected"
                                     ELSE IF is_twitter_advanced_query(val.sanitized)
                                     THEN "structured"
                                     ELSE "natural_language"] >>]
    /\ UNCHANGED <<botvars, data>>

NextUnit ==
    \/ Classify
    \/ Rewrite
    \/ Assess
    \/ GenerateFallbacks
    \/ Validate

\* the classifier and the parser called on their own
SpecUnit ==
    InitUnit /\ [][NextUnit]_vars

---------------------------------------------------------------------------
(* The preprocessor and the analyzer called on their own *)

MaxFrame ==
    3

MaxTokens ==
    2

MaxReply ==
    2

\* tweet texts: null, empty, with capitals, mention, hashtag and
\* punctuation, with slang and a link
tHiBob ==
    <<"H","i"," ","@","b","o","b"," ","#","x","!">>

tSlangLink ==
    <<"b","g","t"," ","g","a"," ","h","t","t","p",":","/","/","t",".","c","o">>

Texts ==
    { NaN, <<>>, tHiBob, tSlangLink }

\* the tokens of test_03_slang_normalization and a dictionary key it leaves out
kWk ==
    <<"w","k","w","k","w","k","k","w","k","w">>

kBgt ==
    <<"b","g","t">>

kGa ==
    <<"g","a">>

kKuy ==
    <<"k","u","y">>

kSantuy ==
    <<"s","a","n","t","u","y">>

kUnknown ==
    <<"u","n","k","n","o","w","n","w","o","r","d">>

kYg ==
    <<"y","g">>

SampleTokens ==
    { kWk, kBgt, kGa, kKuy, kSantuy, kUnknown, kYg }

\* compound scores around the two thresholds
CompoundScores ==
    { -10000, -501, -500, -499, 0, 499, 500, 501, 10000 }

SeqsUpTo(S, n) ==
    UNION { [1..k -> S] : k \in 0..n }

\* frames as read from the CSV file: no tokens column yet
InputFrames ==
    { [columns |-> {"full_text", "created_at", "reply_count"},
       rows |-> [i \in 1..Len(texts) |->
                   [id |-> i, full_text |-> texts[i], tokens |-> <<NaN>>]]] :
      texts \in SeqsUpTo(Texts, MaxFrame) }

\* frames after analyze_sentiment
InputTweets ==
    { [i \in 1..Len(kinds) |->
          [id |-> i, sentiment |-> kinds[i][1], reply_count |-> kinds[i][2]]] :
      kinds \in SeqsUpTo({"negative", "positive"} \X (0..MaxReply), MaxFrame) }

\* a run calls one function, or the three preprocessing steps in sequence
InitData ==
    /\ InitCommon
    /\ api_key = FALSE
    /\ messages = [c \in Handlers |-> {}]
    /\ disk = EmptyDisk
    /\ pc = [c \in Handlers |-> "off"]
    /\ unit = NoUnit
    /\ \/ \E df \in InputFrames :
             data = [NoData EXCEPT !.fn = "preprocess", !.frame_in = df,
                                   !.frame = df]
       \/ \E tokens \in SeqsUpTo(SampleTokens, MaxTokens) :
             data = [NoData EXCEPT !.fn = "slang", !.tokens_in = tokens]
       \/ \E rows \in InputTweets : \E top_n \in 0..MaxFrame :
             data = [NoData EXCEPT !.fn = "top_negative", !.tweets = rows,
                                   !.top_n = top_n]
       \/ \E n \in 0..MaxFrame :
             data = [NoData EXCEPT !.fn = "sentiment", !.texts = n]

CleanText ==
    /\ data.fn = "preprocess"
    /\ data.step = 0
    /\ data' = [data EXCEPT !.frame = clean_text(@), !.step = 1]
    /\ UNCHANGED <<botvars, unit>>

TokenizeText ==
    /\ data.fn = "preprocess"
    /\ data.step = 1
    /\ data' = [data EXCEPT !.frame = tokenize_text(@), !.step = 2]
    /\ UNCHANGED <<botvars, unit>>

ApplySlang ==
    /\ data.fn = "preprocess"
    /\ data.step = 2
    /\ data' = [data EXCEPT !.frame = apply_slang_normalization(@), !.step = 3]
    /\ UNCHANGED <<botvars, unit>>

NormalizeSlang ==
    /\ data.fn = "slang"
    /\ data.step = 0
    /\ data' = [data EXCEPT !.tokens_out = normalize_slang(data.tokens_in, SLANG_DICT),
                            !.step = 1]
    /\ UNCHANGED <<botvars, unit>>

TopNegative ==
    /\ data.fn = "top_negative"
    /\ data.step = 0
    /\ \E top \in get_top_negative_tweets(data.tweets, data.top_n) :
          data' = [data EXCEPT !.top = top, !.step = 1]
    /\ UNCHANGED <<botvars, unit>>

\* analyze_sentiment on a frame of data.texts rows, whatever compound score
\* polarity_scores gives each text
AnalyzeSentiment ==
    /\ data.fn = "sentiment"
    /\ data.step = 0
    /\ \E compound \in [1..data.texts -> CompoundScores] :
          data' = [data EXCEPT !.scored =
                      [i \in 1..data.texts |->
                          [compound |-> compound[i],
                           sentiment |-> sentiment_label(compound[i])]],
                   !.step = 1]
    /\ UNCHANGED <<botvars, unit>>

NextData ==
    \/ CleanText
    \/ TokenizeText
    \/ ApplySlang
    \/ NormalizeSlang
    \/ TopNegative
    \/ AnalyzeSentiment

\* the preprocessor and the analyzer called on their own
SpecData ==
    InitData /\ [][NextData]_vars

---------------------------------------------------------------------------
(* Properties *)

\* smart_search has returned its outcome record
Returned(c) ==
    outcome[c].query_type # "none"

\* the handler has taken its message
Received(c) ==
    pc[c] \notin {"idle", "off"}

\* the handler runs or ran process_natural_language
Natural(c) ==
    /\ Received(c)
    /\ req[c].error = "none"
    /\ Len(req[c].user_input) > 0
    /\ ~is_twitter_advanced_query(req[c].validated_input)

\* the handler runs or ran process_advanced_search
Structured(c) ==
    /\ Received(c)
    /\ req[c].error = "none"
    /\ Len(req[c].user_input) > 0
    /\ is_twitter_advanced_query(req[c].validated_input)

\* the position of a strategy in the precedence a, b, c, d (0: the primary
\* fetch)
Rank(strategy) ==
    CASE strategy = "Remove date filters"      -> 1
      [] strategy = "Remove language filter"   -> 2
      [] strategy = "Keyword-only approach"    -> 3
      [] strategy = "Complexity-reduced query" -> 4
      [] OTHER                                 -> 0

\* the preconditions of strategies a, b and c, as the specification words
\* them
QualifiesA(query) ==
    Contains(query, sSince) \/ Contains(query, sUntil)

QualifiesB(query) ==
    Contains(query, sLang)

QualifiesC(raw_input, query) ==
    extract_keywords(raw_input) # query

\* C1: in one smart_search call at most 2 fallback candidates are fetched
\* after the primary fetch, so at most 3 fetch attempts are issued; the
\* fetched candidates are the first ones of the fallback list, and no
\* candidate beyond the second is fetched.
C1_AtMostTwoFallbacks ==
    \A c \in Handlers :
        /\ Len(attempts[c]) <= 3
        /\ Cardinality({j \in 1..Len(attempts[c]) :
                            attempts[c][j].strategy # "primary"
                            /\ attempts[c][j].strategy # "advanced"}) <= 2
        /\ \A j \in 2..Len(attempts[c]) :
              /\ j - 1 <= 2
              /\ j - 1 <= Len(ss[c].fallback_queries)
              /\ attempts[c][j].query = ss[c].fallback_queries[j - 1].query
              /\ attempts[c][j].strategy = ss[c].fallback_queries[j - 1].strategy

\* C1 witness: three strategies or more qualified, and the call ended after
\* the primary fetch and two fallback fetches
C1_Witness ==
    \E c \in Handlers :
        /\ pc[c] = "done"
        /\ Len(ss[c].fallback_queries) >= 3
        /\ Len(attempts[c]) = 3

\* C2: fallback candidates are fetched in the precedence a, b, c, d: the
\* strategies of the fetched candidates rise strictly; a fetched candidate
\* of a, b or c had its precondition hold; and when a candidate is fetched,
\* each of a, b, c that comes earlier in the precedence and whose
\* precondition holds has been fetched before it.
C2_FetchedInPrecedence ==
    \A c \in Handlers : \A j \in 2..Len(attempts[c]) :
        LET r     == Rank(attempts[c][j].strategy)
            query == ss[c].optimized_query
            before(k) == \E i \in 2..(j - 1) : Rank(attempts[c][i].strategy) = k
        IN  /\ r \in 1..4
            /\ \A i \in 2..(j - 1) : Rank(attempts[c][i].strategy) < r
            /\ (r = 1) => QualifiesA(query)
            /\ (r = 2) => QualifiesB(query)
            /\ (r = 3) => QualifiesC(req[c].validated_input, query)
            /\ (r > 1 /\ QualifiesA(query)) => before(1)
            /\ (r > 2 /\ QualifiesB(query)) => before(2)
            /\ (r > 3 /\ QualifiesC(req[c].validated_input, query)) => before(3)

\* C2 witness: strategy a did not qualify and was skipped, b and c were
\* fetched in that order
C2_Witness ==
    \E c \in Handlers :
        /\ Len(attempts[c]) = 3
        /\ ~QualifiesA(ss[c].optimized_query)
        /\ Rank(attempts[c][2].strategy) = 2
        /\ Rank(attempts[c][3].strategy) = 3

\* C3: once a fetch attempt of smart_search has returned rows no further
\* attempt is issued (every attempt but the last one returned no rows), and
\* the outcome smart_search returns after an attempt with rows has
\* success = true and the query and the rows of that attempt; it reports
\* success in no other case.
C3_StopAtFirstRows ==
    \A c \in Handlers :
        /\ \A j \in 1..(Len(attempts[c]) - 1) :
              attempts[c][j].returned /\ attempts[c][j].rows.n = 0
        /\ (Natural(c) /\ Returned(c)) =>
              LET last == attempts[c][Len(attempts[c])]
              IN  /\ last.returned
                  /\ outcome[c].success <=> last.rows.n > 0
                  /\ outcome[c].success =>
                        /\ outcome[c].used_query = last.query
                        /\ outcome[c].data = last.rows

\* C3 witness: the second fallback fetch returned rows and smart_search
\* returned them
C3_Witness ==
    \E c \in Handlers :
        /\ Returned(c)
        /\ outcome[c].success
        /\ Len(attempts[c]) = 3
        /\ attempts[c][3].rows.n > 0

\* C4: when every fetch attempt of smart_search returned no rows (also when
\* no fallback strategy qualified), the outcome has success = false, no
\* rows, the label 'failed' and the optimized query as its used query.
C4_FailedOutcome ==
    \A c \in Handlers :
        ( /\ Natural(c)
          /\ Returned(c)
          /\ \A j \in 1..Len(attempts[c]) : attempts[c][j].rows.n = 0 )
        => /\ ~outcome[c].success
           /\ outcome[c].data = EmptyDF
           /\ outcome[c].query_type = "failed"
           /\ outcome[c].used_query = ss[c].optimized_query
           /\ outcome[c].used_query = attempts[c][1].query

\* C4 witness: two fallback candidates that differ from the optimized query
\* were fetched without rows and the failed outcome was returned
C4_Witness ==
    \E c \in Handlers :
        /\ Returned(c)
        /\ outcome[c].query_type = "failed"
        /\ Len(attempts[c]) = 3
        /\ attempts[c][3].query # ss[c].optimized_query

\* C5: an input that is empty or longer than 500 characters is answered
\* with an error message at once, with no fetch attempt and no completion
\* service call; an input of exactly 500 characters is not rejected for its
\* length.
C5_RejectedWithoutNetwork ==
    \A c \in Handlers :
        /\ ( /\ Received(c)
             /\ (Len(req[c].user_input) = 0 \/ Len(req[c].user_input) > 500) )
           => /\ pc[c] = "done"
              /\ reply[c] \in {"format_error", "validation_error"}
              /\ attempts[c] = <<>>
              /\ service_calls[c] = NoCalls
        /\ (Received(c) /\ Len(req[c].user_input) = 500)
           => /\ req[c].error # "too_long_or_empty"
              /\ reply[c] # "validation_error"

\* C5 witness: an input of 501 characters was rejected
C5_Witness ==
    \E c \in Handlers :
        /\ pc[c] = "done"
        /\ Len(req[c].user_input) = 501
        /\ reply[c] = "validation_error"

\* C5 second case: an input of exactly 500 characters was fetched
C5_Witness500 ==
    \E c \in Handlers :
        /\ Len(req[c].user_input) = 500
        /\ Len(attempts[c]) = 1

\* C6: for an input classified as structured no rewrite call is made, and
\* the query of the primary fetch, which is issued, is the sanitized input.
C6_StructuredVerbatim ==
    \A c \in Handlers :
        Structured(c)
        => /\ service_calls[c].rewrite = 0
           /\ Len(attempts[c]) >= 1
           /\ attempts[c][1].query = req[c].validated_input
           /\ attempts[c][1].query = Strip(SelectSeq(req[c].user_input, SanitizeKeeps))

\* C6 witness: a structured input whose primary fetch returned rows
C6_Witness ==
    \E c \in Handlers :
        /\ Structured(c)
        /\ pc[c] = "done"
        /\ attempts[c][1].rows.n > 0

\* the two queries of the example of C7
sAliceDated ==
    <<"f","r","o","m",":","a","l","i","c","e"," ",
      "s","i","n","c","e",":","2","0","2","4","-","0","1","-","0","1"," ",
      "u","n","t","i","l",":","2","0","2","4","-","0","1","-","0","2">>

sAlice ==
    <<"f","r","o","m",":","a","l","i","c","e">>

sPemiluLangId ==
    <<"p","e","m","i","l","u"," ","l","a","n","g",":","i","d">>

C7_WitnessNatural ==
    \E c \in Handlers :
        /\ Natural(c)
        /\ ss[c].optimized_query = rFull
        /\ Len(attempts[c]) >= 2
        /\ attempts[c][2].query = sPemiluLangId

\* C8 as stated: the rows a fetch attempt for query q returns, if any, were
\* produced by a run of the tool with the search expression q.
C8_RowsOfTheQuery ==
    \A c \in Handlers : \A j \in 1..Len(attempts[c]) :
        attempts[c][j].returned =>
            \/ attempts[c][j].rows.n = 0
            \/ attempts[c][j].rows.expr = attempts[c][j].query

\* C9 as stated: of two smart_search calls that run at the same time, each
\* gets back only rows that its own runs of the tool have written.
C9_NoInterference ==
    (Natural(1) /\ Natural(2)) =>
        \A c \in Handlers : \A j \in 1..Len(attempts[c]) :
            attempts[c][j].rows.n > 0 => attempts[c][j].rows.by = c

\* C10: no exception leaves smart_search: a handler on the natural-language
\* path that is past smart_search holds the outcome record it returned,
\* with a verdict in it and either success or the label 'failed'; an
\* exception of a fetch attempt has become an empty row set; without a
\* credential the optimized query is the one of fallback_parse.
C10_SmartSearchNeverRaises ==
    \A c \in Handlers :
        /\ escaped[c] = "none"
        /\ (Natural(c) /\ pc[c] \in {"ss_return", "done"}) =>
              /\ Returned(c)
              /\ outcome[c].complexity_check # NoMembers
              /\ outcome[c].success \/ outcome[c].query_type = "failed"
        /\ Natural(c) =>
              \A j \in 1..Len(attempts[c]) :
                  (attempts[c][j].returned /\ attempts[c][j].raised # "none")
                      => /\ attempts[c][j].rows = EmptyDF
                         /\ pc[c] # "done" \/ reply[c] # "error"
        /\ (Natural(c) /\ ~api_key /\ pc[c] # "ss_parse") =>
              ss[c].optimized_query = fallback_parse(req[c].validated_input)

\* C10 witness: the advisor call failed with an exception, a fetch attempt
\* raised OSError, and smart_search returned the failed outcome
C10_Witness ==
    \E c \in Handlers :
        /\ Returned(c)
        /\ outcome[c].query_type = "failed"
        /\ outcome[c].complexity_check.suggestions = "Analysis unavailable"
        /\ \E j \in 1..Len(attempts[c]) : attempts[c][j].raised = "OSError"

\* the completion service gave the call nothing to use: no credential, an
\* exception of the exchange, or an answer without text
Unavailable(call) ==
    \/ ~api_key
    \/ call.o.exc # "none"
    \/ Len(Strip(call.o.content)) = 0

\* C11 as stated: with the completion service unavailable,
\* parse_natural_language returns a query string that is not empty.
C11_FallbackNeverEmpty ==
    \A i \in 1..Len(unit.rewrites) :
        Unavailable(unit.rewrites[i]) =>
            /\ unit.rewrites[i].exc = "none"
            /\ unit.rewrites[i].query # PyNone
            /\ Len(unit.rewrites[i].query) > 0

\* C12 as stated: the string parse_natural_language returns has at most
\* 500 characters and no newline character.
C12_RewriteBounded ==
    \A i \in 1..Len(unit.rewrites) :
        /\ Len(unit.rewrites[i].query) <= 500
        /\ \A k \in 1..Len(unit.rewrites[i].query) :
              unit.rewrites[i].query[k] # "\n"

\* C13 as stated: with the completion service unavailable, two calls with
\* the same input return the same query string and neither call sends a
\* request.
C13_UnavailableNoRequest ==
    \A i, j \in 1..Len(unit.rewrites) :
        (Unavailable(unit.rewrites[i]) /\ Unavailable(unit.rewrites[j])) =>
            /\ unit.rewrites[i].query = unit.rewrites[j].query
            /\ unit.rewrites[i].http = 0
            /\ unit.rewrites[j].http = 0

\* C13 amended: with the completion service unavailable, two calls with
\* the same input return the same query string, whatever made the service
\* unavailable in each; a call sends no request when no credential is set,
\* and sends one request when a credential is set.
C13_FallbackDeterministic ==
    /\ \A i, j \in 1..Len(unit.rewrites) :
          (Unavailable(unit.rewrites[i]) /\ Unavailable(unit.rewrites[j])) =>
              /\ unit.rewrites[i].exc = "none"
              /\ unit.rewrites[i].query = unit.rewrites[j].query
    /\ \A i \in 1..Len(unit.rewrites) :
          unit.rewrites[i].http = IF api_key THEN 1 ELSE 0

\* C13 witness: two calls with a credential, one met by a network error and
\* one by an empty answer, returned the same non-empty query
C13_Witness ==
    /\ api_key
    /\ Len(unit.rewrites) = 2
    /\ unit.rewrites[1].o.exc = "RequestException"
    /\ unit.rewrites[2].o = Answer(<<>>)
    /\ unit.rewrites[1].query = unit.rewrites[2].query
    /\ Len(unit.rewrites[1].query) > 0

\* C13 second case: two calls without credential sent no request
C13_WitnessNoCredential ==
    /\ ~api_key
    /\ Len(unit.rewrites) = 2
    /\ unit.rewrites[1].o # unit.rewrites[2].o
    /\ unit.rewrites[1].http = 0
    /\ unit.rewrites[2].http = 0

\* C14 as stated: validate_query_complexity returns a verdict whose
\* confidence is a number in [0,1] (held in tenths).
C14_ConfidenceInRange ==
    \A i \in 1..Len(unit.verdicts) :
        /\ unit.verdicts[i].exc = "none"
        /\ unit.verdicts[i].verdict.confidence.t = "num"
        /\ unit.verdicts[i].verdict.confidence.v \in 0..10

\* the text the service returned to the call, if any
AnswerText(call) ==
    IF api_key /\ call.o.exc = "none" THEN Strip(call.o.content) ELSE <<>>

\* the text has a span from a '{' to a later '}'
HasSpan(text) ==
    \E i, j \in 1..Len(text) : i < j /\ text[i] = LBrace /\ text[j] = RBrace

\* the span from the first '{' to the last '}' parses as JSON
SpanParses(text) ==
    /\ HasSpan(text)
    /\ LET first == CHOOSE i \in 1..Len(text) :
                       text[i] = LBrace /\ \A k \in 1..(i - 1) : text[k] # LBrace
           last  == CHOOSE j \in 1..Len(text) :
                       text[j] = RBrace /\ \A k \in (j + 1)..Len(text) : text[k] # RBrace
       IN  json_loads(SubSeq(text, first, last)).ok

\* C15: when the service call fails, or its answer has no brace-delimited
\* span, or the span does not parse as JSON, validate_query_complexity
\* returns the default verdict: not too restrictive, confidence 0.3 or 0.5,
\* a placeholder suggestion, and the input query as alternative query.
C15_DefaultVerdict ==
    \A i \in 1..Len(unit.verdicts) :
        LET call == unit.verdicts[i]
        IN  ~SpanParses(AnswerText(call)) =>
                /\ call.exc = "none"
                /\ call.verdict.is_too_restrictive = "false"
                /\ call.verdict.confidence.t = "num"
                /\ call.verdict.confidence.v \in 3..5
                /\ call.verdict.suggestions \in
                      {"No analysis available", "Analysis unavailable"}
                /\ call.verdict.alternative_query = unit.user_input

\* C15 witness: an answer whose only '}' comes before its '{' got the
\* default verdict
C15_Witness ==
    /\ api_key
    /\ Len(unit.verdicts) = 1
    /\ unit.verdicts[1].o = Answer(<<RBrace, " ", LBrace>>)
    /\ unit.verdicts[1].verdict.confidence = JNum(5)
    /\ unit.verdicts[1].verdict.alternative_query = unit.user_input

\* C15 second case: an exception of the service call that _call_groq_api
\* does not catch got the default verdict with confidence 0.3
C15_WitnessException ==
    /\ api_key
    /\ Len(unit.verdicts) = 1
    /\ unit.verdicts[1].o.exc = "TypeError"
    /\ unit.verdicts[1].verdict.confidence = JNum(3)

\* the markers C16 lists
ClaimedMarkers ==
    { <<"f","r","o","m",":">>, <<"s","i","n","c","e",":">>,
      <<"u","n","t","i","l",":">>, <<"l","a","n","g",":">>,
      <<"f","i","l","t","e","r",":">>, <<" ","-">>, <<"#">>, <<"@">>,
      <<"\"">>, <<"?">>, <<" ","O","R"," ">>, <<" ","A","N","D"," ">> }

\* C16: is_twitter_advanced_query answers structured for every input with
\* a from: or lang: token, and natural language for every input with none
\* of the listed markers.
C16_Classifier ==
    unit.classified # "none" =>
        /\ ( \/ Contains(unit.user_input, <<"f","r","o","m",":">>)
             \/ Contains(unit.user_input, <<"l","a","n","g",":">>) )
           => unit.classified = "structured"
        /\ (\A m \in ClaimedMarkers : ~Contains(unit.user_input, m))
           => unit.classified = "natural_language"

\* C16 witness: an input whose only marker is lang: was classified
\* structured
C16_Witness ==
    /\ unit.user_input = uKopiLang
    /\ unit.classified = "structured"

\* C16 second case: an input with a lower-case 'or' and no marker was
\* classified natural language
C16_WitnessNatural ==
    /\ unit.user_input = uLowerOr
    /\ unit.classified = "natural_language"

\* the text of a row with a null taken as the empty text
Filled(text) ==
    IF text = NaN THEN <<>> ELSE text

\* the rows of the input frame whose text no earlier row has
FirstIds ==
    { i \in 1..Len(data.frame_in.rows) :
        \A j \in 1..(i - 1) :
            Filled(data.frame_in.rows[j].full_text)
                # Filled(data.frame_in.rows[i].full_text) }

\* clean_text, tokenize_text and apply_slang_normalization have been applied
Preprocessed ==
    data.fn = "preprocess" /\ data.step = 3

\* every original column is there, and no full_text or tokens value is null
ColumnsKeptNoNulls ==
    /\ data.frame_in.columns \subseteq data.frame.columns
    /\ "tokens" \in data.frame.columns
    /\ \A i \in 1..Len(data.frame.rows) :
          /\ data.frame.rows[i].full_text # NaN
          /\ data.frame.rows[i].tokens # <<NaN>>
          /\ \A k \in 1..Len(data.frame.rows[i].tokens) :
                data.frame.rows[i].tokens[k] # NaN

\* C17 as stated: after clean_text, tokenize_text and
\* apply_slang_normalization the frame has as many rows as the input frame,
\* every original column, and no null full_text or tokens value.
C17_RowsPreserved ==
    Preprocessed =>
        /\ Len(data.frame.rows) = Len(data.frame_in.rows)
        /\ ColumnsKeptNoNulls

\* C17 amended: the frame returned has, in their order, the rows of the
\* input frame whose full_text (null taken as '') no earlier row has; it has
\* as many rows as the input frame exactly when no two rows of the input
\* share a full_text, and fewer otherwise; it has every original column and
\* no null full_text or tokens value.
C17_FirstOccurrencesKept ==
    Preprocessed =>
        /\ Len(data.frame.rows) = Cardinality(FirstIds)
        /\ \A i \in 1..Len(data.frame.rows) : data.frame.rows[i].id \in FirstIds
        /\ \A i, j \in 1..Len(data.frame.rows) :
              i < j => data.frame.rows[i].id < data.frame.rows[j].id
        /\ Len(data.frame.rows) <= Len(data.frame_in.rows)
        /\ (Len(data.frame.rows) = Len(data.frame_in.rows)) <=>
              \A i, j \in 1..Len(data.frame_in.rows) :
                  i # j => Filled(data.frame_in.rows[i].full_text)
                              # Filled(data.frame_in.rows[j].full_text)
        /\ ColumnsKeptNoNulls

\* C17 witness: of a null text, an empty text and a tweet, two rows are left
C17_Witness ==
    /\ Preprocessed
    /\ Len(data.frame_in.rows) = 3
    /\ data.frame_in.rows[1].full_text = NaN
    /\ data.frame_in.rows[2].full_text = <<>>
    /\ data.frame_in.rows[3].full_text = tSlangLink
    /\ Len(data.frame.rows) = 2
    /\ data.frame.rows[2].tokens = <<<<"b","a","n","g","e","t">>, <<"t","i","d","a","k">>>>

\* C17 second case: a frame of distinct texts keeps its rows
C17_WitnessDistinct ==
    /\ Preprocessed
    /\ Len(data.frame_in.rows) = 3
    /\ Len(data.frame.rows) = 3

\* what C18 says of each token the test lists
ClaimedStandard ==
    kWk :> <<"t","e","r","t","a","w","a">> @@ kBgt :> <<"b","a","n","g","e","t">> @@ kGa :> <<"t","i","d","a","k">> @@
    kKuy :> <<"y","u","k">> @@ kSantuy :> <<"s","a","n","t","a","i">>

\* C18 as stated: normalize_slang with Config.SLANG_DICT returns a list of
\* the same length in which wkwkwkkwkw, bgt, ga, kuy and santuy are
\* replaced by tertawa, banget, tidak, yuk and santai, in place, and a
\* token that is no key of the dictionary is returned as it is.
C18_SlangReplaced ==
    (data.fn = "slang" /\ data.step = 1) =>
        /\ Len(data.tokens_out) = Len(data.tokens_in)
        /\ \A i \in 1..Len(data.tokens_in) :
              /\ data.tokens_in[i] \in DOMAIN ClaimedStandard =>
                    data.tokens_out[i] = ClaimedStandard[data.tokens_in[i]]
              /\ data.tokens_in[i] \notin (DOMAIN SLANG_DICT \cup DOMAIN ClaimedStandard) =>
                    data.tokens_out[i] = data.tokens_in[i]

\* C19: get_top_negative_tweets(df, top_n) returns at most top_n rows, all
\* of them rows of df with sentiment 'negative', each at most once, in
\* non-increasing reply_count order, and no negative row it leaves out has
\* a higher reply_count than a row it returns.
C19_TopNegative ==
    (data.fn = "top_negative" /\ data.step = 1) =>
        /\ Len(data.top) <= data.top_n
        /\ \A i \in 1..Len(data.top) :
              /\ data.top[i].sentiment = "negative"
              /\ data.top[i].id \in 1..Len(data.tweets)
              /\ data.top[i] = data.tweets[data.top[i].id]
        /\ \A i, j \in 1..Len(data.top) :
              i < j => /\ data.top[i].id # data.top[j].id
                       /\ data.top[i].reply_count >= data.top[j].reply_count
        /\ \A k \in 1..Len(data.tweets) :
              ( /\ data.tweets[k].sentiment = "negative"
                /\ \A i \in 1..Len(data.top) : data.top[i].id # k )
              => \A i \in 1..Len(data.top) :
                    data.tweets[k].reply_count <= data.top[i].reply_count
        /\ Len(data.top) < data.top_n =>
              \A k \in 1..Len(data.tweets) :
                  data.tweets[k].sentiment = "negative" =>
                      \E i \in 1..Len(data.top) : data.top[i].id = k

\* C19 witness: of three negative rows the two with the most replies were
\* returned, the highest first
C19_Witness ==
    /\ data.fn = "top_negative"
    /\ data.step = 1
    /\ data.top_n = 2
    /\ Len(data.tweets) = 3
    /\ \A k \in 1..3 : data.tweets[k].sentiment = "negative"
    /\ data.tweets[1].reply_count = 0
    /\ data.tweets[2].reply_count = 2
    /\ data.tweets[3].reply_count = 1
    /\ Len(data.top) = 2
    /\ data.top[1].id = 2
    /\ data.top[2].id = 3

\* C20: analyze_sentiment gives every row one of the three labels: positive
\* exactly for a compound score above 0.05, negative exactly for one below
\* -0.05, neutral for the others, 0.05 and -0.05 among them (scores in
\* ten-thousandths).
C20_Labels ==
    (data.fn = "sentiment" /\ data.step = 1) =>
        /\ Len(data.scored) = data.texts
        /\ \A i \in 1..Len(data.scored) :
              /\ data.scored[i].sentiment \in {"positive", "negative", "neutral"}
              /\ data.scored[i].sentiment = "positive" <=> data.scored[i].compound > 500
              /\ data.scored[i].sentiment = "negative" <=> data.scored[i].compound < -500
              /\ data.scored[i].sentiment = "neutral" <=>
                    (data.scored[i].compound >= -500 /\ data.scored[i].compound <= 500)

\* C20 witness: rows with the scores 0.05 and -0.05 were labelled neutral
C20_Witness ==
    /\ data.fn = "sentiment"
    /\ data.step = 1
    /\ Len(data.scored) = 2
    /\ data.scored[1] = [compound |-> 500, sentiment |-> "neutral"]
    /\ data.scored[2] = [compound |-> -500, sentiment |-> "neutral"]

---------------------------------------------------------------------------
(* The verdict behind strategy d, the advisor on both paths *)

\* the entries of strategy d in the fallback list of handler c
StrategyDEntries(c) ==
    SelectSeq(ss[c].fallback_queries,
              LAMBDA f : f.strategy = "Complexity-reduced query")

\* smart_search has built its fallback list and stands at the head of the
\* loop
ListBuilt(c) ==
    pc[c] = "ss_loop"

\* C21: the verdict that decides strategy d is the verdict smart_search
\* reports in its outcome: the advisor is not consulted a second time in
\* the same smart_search call, strategy d is in the fallback list exactly
\* when that verdict is too restrictive with an alternative other than the
\* optimized query, and its candidate is that alternative.
C21_StrategyDFromReportedVerdict ==
    \A c \in Handlers :
        /\ service_calls[c].verdict <= 1
        /\ ListBuilt(c) =>
              LET v == ss[c].complexity_check
                  q == ss[c].optimized_query
              IN  /\ (Len(StrategyDEntries(c)) > 0) <=>
                        (IsTooRestrictive(v) /\ AlternativeQuery(v, q) # q)
                  /\ \A j \in 1..Len(StrategyDEntries(c)) :
                        StrategyDEntries(c)[j].query = AlternativeQuery(v, q)

\* the request of handler c passed validate_query
Validated(c) ==
    /\ Received(c)
    /\ req[c].error = "none"
    /\ Len(req[c].user_input) > 0

C22_WitnessStructured ==
    \E c \in Handlers :
        /\ Structured(c)
        /\ Len(attempts[c]) = 1
        /\ attempts[c][1].returned
        /\ service_calls[c] = NoCalls

---------------------------------------------------------------------------
(* The row limit of the fetch attempts *)

\* C29 as stated: every fetch attempt of a request, primary or fallback, on
\* the natural-language and on the structured path, asks for 100 rows.
C29_EveryAttemptLimit100 ==
    \A c \in Handlers : \A j \in 1..Len(attempts[c]) :
        attempts[c][j].limit = 100

\* C29 amended: every fetch attempt of smart_search, primary or fallback,
\* asks for 50 rows; the one fetch attempt of a structured request asks for
\* 100 rows.
C29_LimitByPath ==
    \A c \in Handlers : \A j \in 1..Len(attempts[c]) :
        /\ Natural(c) => attempts[c][j].limit = 50
        /\ Structured(c) => attempts[c][j].limit = 100
        /\ Natural(c) \/ Structured(c)

\* C29 witness: a fallback fetch of smart_search asked for 50 rows
C29_Witness ==
    \E c \in Handlers :
        /\ Natural(c)
        /\ Len(attempts[c]) >= 2
        /\ attempts[c][2].strategy # "primary"
        /\ attempts[c][2].limit = 50
        /\ attempts[c][1].limit = 50

\* C29 second case: the fetch of a structured request asked for 100 rows
C29_WitnessStructured ==
    \E c \in Handlers :
        /\ Structured(c)
        /\ Len(attempts[c]) = 1
        /\ attempts[c][1].limit = 100

---------------------------------------------------------------------------
(* Without a credential *)

sSentimenPemiluLangId ==
    <<"s","e","n","t","i","m","e","n"," ","p","e","m","i","l","u"," ",
      "l","a","n","g",":","i","d">>

\* C26: with no credential no HTTP request is sent during a smart_search
\* call: parse_natural_language returns the query of fallback_parse
\* ('sentimen pemilu lang:id' for 'sentimen tentang pemilu'),
\* validate_query_complexity returns the default verdict (not restrictive,
\* confidence 0.5, the query as its alternative), no exception leaves
\* smart_search and it returns an outcome.
C26_NoCredentialNoRequest ==
    \A c \in Handlers :
        ~api_key =>
            /\ service_calls[c].http = 0
            /\ escaped[c] = "none"
            /\ service_calls[c].rewrite >= 1 =>
                  /\ ss[c].optimized_query = fallback_parse(req[c].validated_input)
                  /\ req[c].validated_input = uSentimen
                        => ss[c].optimized_query = sSentimenPemiluLangId
            /\ service_calls[c].verdict >= 1 =>
                  /\ ss[c].complexity_check.is_too_restrictive = "false"
                  /\ ss[c].complexity_check.confidence = JNum(5)
                  /\ ss[c].complexity_check.alternative_query = ss[c].optimized_query
            /\ (Natural(c) /\ pc[c] = "done") =>
                  /\ Returned(c)
                  /\ outcome[c].complexity_check = ss[c].complexity_check

\* C26 witness: without a credential smart_search returned its outcome
\* after the parser and the advisor were called twice
C26_Witness ==
    \E c \in Handlers :
        /\ ~api_key
        /\ Natural(c)
        /\ pc[c] = "done"
        /\ Returned(c)
        /\ service_calls[c] = [rewrite |-> 1, verdict |-> 2, http |-> 0]
        /\ ss[c].optimized_query = sSentimenPemiluLangId

---------------------------------------------------------------------------
(* The first balanced span of an answer *)

RECURSIVE BalancedEnd(_, _, _)
\* index of the '}' that closes the span open at depth before index i, 0
\* when the text ends first
BalancedEnd(text, i, depth) ==
    IF i > Len(text) THEN 0
    ELSE IF text[i] = LBrace THEN BalancedEnd(text, i + 1, depth + 1)
    ELSE IF text[i] = RBrace
    THEN IF depth = 1 THEN i ELSE BalancedEnd(text, i + 1, depth - 1)
    ELSE BalancedEnd(text, i + 1, depth)

\* the first balanced brace-delimited span of the text, empty when there is
\* none
FirstBalancedSpan(text) ==
    LET first == IF \E i \in 1..Len(text) : text[i] = LBrace
                 THEN CHOOSE i \in 1..Len(text) :
                         text[i] = LBrace /\ \A k \in 1..(i - 1) : text[k] # LBrace
                 ELSE 0
        last  == IF first = 0 THEN 0 ELSE BalancedEnd(text, first + 1, 1)
    IN  IF last = 0 THEN <<>> ELSE SubSeq(text, first, last)

\* C25: when the first balanced brace-delimited span of the answer is a
\* well-formed verdict object, validate_query_complexity returns that
\* verdict, also when text with braces follows the span.
C25_FirstBalancedSpanReturned ==
    \A j \in 1..Len(unit.verdicts) :
        LET span == FirstBalancedSpan(AnswerText(unit.verdicts[j]))
        IN  (json_loads(span).ok /\ json_loads(span).dict # NoMembers)
            => unit.verdicts[j].verdict = Said(json_loads(span).dict, unit.user_input)

---------------------------------------------------------------------------
(* The candidates of the fallback strategies *)

\* the entries of a strategy in a fallback list
EntriesOf(queries, strategy) ==
    SelectSeq(queries, LAMBDA f : f.strategy = strategy)

\* a token that is no stop word and has more than 2 characters
Salient(token) ==
    token \notin crawler_stop_words /\ Len(token) > 2

\* the salient tokens of an input, in lower case, in order
SalientTokens(input) ==
    SelectSeq(Split(Lower(input)), Salient)

sSentimenMasyarakatIndonesia ==
    <<"s","e","n","t","i","m","e","n"," ","m","a","s","y","a","r","a","k","a","t"," ",
      "i","n","d","o","n","e","s","i","a">>

sLowerLangColonPemilu ==
    <<"l","a","n","g",":"," ","p","e","m","i","l","u">>

\* C23 as stated: the candidate of strategy c is made of at most 3 tokens
\* of the input, in order, none of them a stop word or of length 2 or less,
\* and it is in the fallback list exactly when it differs from the
\* optimized query.
C23_KeywordCandidate ==
    \A j \in 1..Len(unit.fallbacks) :
        LET f       == unit.fallbacks[j]
            claimed == Join(Take(SalientTokens(unit.user_input), 3))
            entries == EntriesOf(f.queries, "Keyword-only approach")
        IN  f.exc = "none" =>
              /\ (Len(entries) > 0) <=> (claimed # f.optimized_query)
              /\ \A k \in 1..Len(entries) :
                    /\ entries[k].query = claimed
                    /\ Len(Split(entries[k].query)) <= 3
                    /\ \A t \in 1..Len(Split(entries[k].query)) :
                          Salient(Split(entries[k].query)[t])

\* C23 amended: the candidate of strategy c is made of the first 3 salient
\* tokens of the lower-cased input when it has any (tokens that are no stop
\* word and longer than 2 characters), and is the whole input, as it is,
\* when it has none; it is in the fallback list exactly when it is not
\* empty and differs from the optimized query.
C23_KeywordCandidateOrInput ==
    \A j \in 1..Len(unit.fallbacks) :
        LET f         == unit.fallbacks[j]
            salient   == SalientTokens(unit.user_input)
            candidate == IF Len(salient) > 0 THEN Join(Take(salient, 3))
                         ELSE unit.user_input
            entries   == EntriesOf(f.queries, "Keyword-only approach")
        IN  f.exc = "none" =>
              /\ Len(entries) <= 1
              /\ (Len(entries) = 1) <=>
                    (Len(candidate) > 0 /\ candidate # f.optimized_query)
              /\ Len(entries) = 1 =>
                    /\ entries[1].query = candidate
                    /\ Len(salient) > 0 =>
                          /\ Len(Split(entries[1].query)) <= 3
                          /\ \A t \in 1..Len(Split(entries[1].query)) :
                                Salient(Split(entries[1].query)[t])
                    /\ unit.user_input = uSixKeywords
                          => entries[1].query = sSentimenMasyarakatIndonesia
                    /\ unit.user_input = uLangColon
                          => entries[1].query = sLowerLangColonPemilu
                    /\ unit.user_input = uAi => entries[1].query = uAi

\* C23 witness: of an input of six keywords the first three are the
\* candidate
C23_Witness ==
    /\ unit.user_input = uSixKeywords
    /\ Len(unit.fallbacks) = 1
    /\ unit.fallbacks[1].exc = "none"
    /\ Len(EntriesOf(unit.fallbacks[1].queries, "Keyword-only approach")) = 1
    /\ EntriesOf(unit.fallbacks[1].queries, "Keyword-only approach")[1].query
          = sSentimenMasyarakatIndonesia

\* C23 second case: an input without a salient token is its own candidate
C23_WitnessNoKeyword ==
    /\ unit.user_input = uStopWords
    /\ Len(unit.fallbacks) = 1
    /\ unit.fallbacks[1].exc = "none"
    /\ Len(EntriesOf(unit.fallbacks[1].queries, "Keyword-only approach")) = 1
    /\ EntriesOf(unit.fallbacks[1].queries, "Keyword-only approach")[1].query
          = uStopWords

\* C23 third case: the candidate equals the optimized query and is left out
C23_WitnessLeftOut ==
    /\ unit.user_input = uKopi
    /\ Len(unit.fallbacks) = 1
    /\ unit.fallbacks[1].exc = "none"
    /\ unit.fallbacks[1].optimized_query = uKopi
    /\ EntriesOf(unit.fallbacks[1].queries, "Keyword-only approach") = <<>>

\* a token that begins with one of the prefixes
TokenOf(token, prefixes) ==
    \E p \in prefixes : MatchAt(token, p, 1)

\* the tokens of a query without those of the prefixes
TokensWithout(query, prefixes) ==
    SelectSeq(Split(query), LAMBDA token : ~TokenOf(token, prefixes))

\* C24: when strategy a is in the fallback list its candidate has no since:
\* or until: token, when strategy b is in the list its candidate has no
\* lang: token, and each candidate keeps every other token of the
\* optimized query, unchanged and in order.
C24_FilterTokensStripped ==
    \A j \in 1..Len(unit.fallbacks) :
        LET f == unit.fallbacks[j]
            a == EntriesOf(f.queries, "Remove date filters")
            b == EntriesOf(f.queries, "Remove language filter")
        IN  /\ \A k \in 1..Len(a) :
                  /\ \A t \in 1..Len(Split(a[k].query)) :
                        ~TokenOf(Split(a[k].query)[t], {sSince, sUntil})
                  /\ Split(a[k].query)
                        = TokensWithout(f.optimized_query, {sSince, sUntil})
            /\ \A k \in 1..Len(b) :
                  /\ \A t \in 1..Len(Split(b[k].query)) :
                        ~TokenOf(Split(b[k].query)[t], {sLang})
                  /\ Split(b[k].query) = TokensWithout(f.optimized_query, {sLang})

---------------------------------------------------------------------------
(* The shape of the local fallback query *)

\* the input has a word that is an Indonesian indicator
HasIndicatorWord(input) ==
    \E t \in 1..Len(Split(Lower(input))) :
        Split(Lower(input))[t] \in indonesian_indicators

\* C27: the query of fallback_parse has at most 5 tokens separated by
\* single spaces, none of its keyword tokens is a stop word or of length 2
\* or less, and it has the token lang:id whenever the input has an
\* Indonesian indicator word.
C27_FallbackParseShape ==
    \A j \in 1..Len(unit.rewrites) :
        LET tokens == Split(unit.rewrites[j].query)
        IN  ~api_key =>
              /\ unit.rewrites[j].query = Join(tokens)
              /\ Len(tokens) <= 5
              /\ \A t \in 1..Len(tokens) :
                    tokens[t] # sLangId =>
                        (tokens[t] \notin parser_stop_words /\ Len(tokens[t]) > 2)
              /\ HasIndicatorWord(unit.user_input) =>
                    \E t \in 1..Len(tokens) : tokens[t] = sLangId

---------------------------------------------------------------------------
(* Sanitizing and classifying *)

\* the class of a text by the markers the classifier is said to look for
ClaimedClass(text) ==
    IF \E m \in ClaimedMarkers : Contains(text, m)
    THEN "structured" ELSE "natural_language"

\* C28: for every input validate_query accepts, each marker of the
\* classifier that occurs in the input occurs in the sanitized text too,
\* and the sanitized text is classified as the input would be.
C28_SanitizerKeepsClass ==
    \A j \in 1..Len(unit.validated) :
        unit.validated[j].error = "none" =>
            /\ \A m \in ClaimedMarkers :
                  Contains(unit.user_input, m)
                      => Contains(unit.validated[j].sanitized, m)
            /\ unit.validated[j].route = ClaimedClass(unit.user_input)

---------------------------------------------------------------------------
(* Strategy d without the completion service *)

\* C30: when the call of the completion service fails, or no credential is
\* configured, strategy d contributes no candidate: the fallback list is
\* made of strategies a, b and c only, in that order.
C30_NoStrategyDWithoutService ==
    \A j \in 1..Len(unit.fallbacks) :
        LET f == unit.fallbacks[j]
        IN  (~api_key \/ f.vo.exc # "none") =>
              /\ f.exc = "none"
              /\ EntriesOf(f.queries, "Complexity-reduced query") = <<>>
              /\ f.queries =
                    EntriesOf(f.queries, "Remove date filters")
                       \o EntriesOf(f.queries, "Remove language filter")
                       \o EntriesOf(f.queries, "Keyword-only approach")
              /\ ~IsTooRestrictive(f.verdict)

\* C30 witness: the verdict request failed and the list has the candidates
\* of strategies a, b and c
C30_Witness ==
    /\ api_key
    /\ Len(unit.fallbacks) = 1
    /\ unit.fallbacks[1].vo.exc = "RequestException"
    /\ unit.fallbacks[1].optimized_query = rFull
    /\ Len(unit.fallbacks[1].queries) = 3
    /\ unit.fallbacks[1].queries[3].strategy = "Keyword-only approach"

\* C30 second case: no credential, and the list has no candidate of
\* strategy d
C30_WitnessNoCredential ==
    /\ ~api_key
    /\ Len(unit.fallbacks) = 1
    /\ unit.fallbacks[1].http = 0
    /\ Len(unit.fallbacks[1].queries) >= 1
    /\ \A k \in 1..Len(unit.fallbacks[1].queries) :
          unit.fallbacks[1].queries[k].strategy # "Complexity-reduced query"

---------------------------------------------------------------------------
(* The queries of the fetch attempts *)

\* C31: in one smart_search call no query is fetched twice: each fallback
\* candidate that is fetched differs from the optimized query and from
\* every candidate fetched before it.
C31_NoQueryFetchedTwice ==
    \A c \in Handlers : \A i, j \in 1..Len(attempts[c]) :
        i < j => attempts[c][i].query # attempts[c][j].query

\* C32: every query handed to a fetch attempt of smart_search, primary or
\* fallback, is a string that is not empty, so that crawl_tweets never
\* takes Config.DEFAULT_SEARCH_QUERY in its place.
C32_QueriesNotEmpty ==
    \A c \in Handlers : \A j \in 1..Len(attempts[c]) :
        /\ attempts[c][j].query \notin {PyNone, PyNumber}
        /\ Len(attempts[c][j].query) > 0
        /\ Len(Strip(attempts[c][j].query)) > 0

\* C33: the rows a fetch attempt returns were written by a tool run of that
\* attempt, with the query of the attempt or the expression of its second
\* alternative approach; when its runs write no file the attempt returns no
\* rows, whatever file an earlier attempt or an earlier run of the program
\* has left.
C33_RowsOfOwnRun ==
    \A c \in Handlers : \A j \in 1..Len(attempts[c]) :
        (attempts[c][j].returned /\ attempts[c][j].rows.n > 0) =>
            /\ attempts[c][j].rows.by = c
            /\ attempts[c][j].rows.expr \in {attempts[c][j].query, sTestQuery}

---------------------------------------------------------------------------
(* Termination and the terminal reply *)

\* C34: every smart_search call ends: it returns an outcome, after at most
\* 3 fetch attempts and at most 3 calls of the completion service.
C34_SmartSearchTerminates ==
    /\ [](\A c \in Handlers :
            /\ Len(attempts[c]) <= 3
            /\ service_calls[c].rewrite + service_calls[c].verdict <= 3
            /\ service_calls[c].http <= 3)
    /\ \A c \in Handlers :
          (pc[c] = "ss_parse") ~> (pc[c] = "ss_return" /\ Returned(c))

\* C34 witness: smart_search returned after 3 fetch attempts and 3 calls of
\* the completion service
C34_Witness ==
    \E c \in Handlers :
        /\ pc[c] = "ss_return"
        /\ Returned(c)
        /\ Len(attempts[c]) = 3
        /\ service_calls[c] = [rewrite |-> 1, verdict |-> 2, http |-> 3]

\* the terminal messages of a request: the help text, the validation
\* error, the two embeds for no result, the error message, the results
TerminalReplies ==
    { "format_error", "validation_error", "no_tweets", "analysis_failed",
      "error", "processing_error", "results" }

\* C35: every message that begins with '@XS' gets a terminal reply in the
\* end, and no handler ends without one.
C35_EveryMessageAnswered ==
    /\ [](\A c \in Handlers :
            /\ pc[c] = "done" => reply[c] \in TerminalReplies
            /\ pc[c] # "done" => reply[c] = "none")
    /\ \A c \in Handlers :
          (pc[c] = "idle") ~> (pc[c] = "done" /\ reply[c] \in TerminalReplies)

\* C35 witness: a natural-language request ended with the embed of the
\* failed analysis after three empty fetch attempts
C35_Witness ==
    \E c \in Handlers :
        /\ Natural(c)
        /\ pc[c] = "done"
        /\ reply[c] = "analysis_failed"
        /\ Len(attempts[c]) = 3

\* C35 second case: an empty query got the help text
C35_WitnessHelp ==
    \E c \in Handlers :
        /\ pc[c] = "done"
        /\ Len(req[c].user_input) = 0
        /\ reply[c] = "format_error"

\* C35 third case: the analysis pipeline raised after a fetch with rows
C35_WitnessPipelineError ==
    \E c \in Handlers :
        /\ Structured(c)
        /\ pc[c] = "done"
        /\ reply[c] = "processing_error"

===========================================================================
